---- MODULE Spec2Model ----
(***************************************************************************)
(* Verification model of the CV-PIC-CAD layout core.                       *)
(*                                                                         *)
(*   - build_circuit_from_dict (src/gdsGen/buildCircuit.py): instance      *)
(*     creation, anchor placement, relative placement.                     *)
(*   - _create_precise_euler_sbend (src/gdsGen/pdk.py) and                 *)
(*     create_precise_euler_sbend (src/gdsGen/tunable_beam_splitter.py).   *)
(*                                                                         *)
(* Geometry is kept on an integer lattice: rotations are multiples of 90   *)
(* degrees (k in 0..3), port orientations likewise, coordinates integers.  *)
(***************************************************************************)
EXTENDS Integers, Sequences, FiniteSets, TLC

VARIABLES
    instances,      \* netlist: sequence of [name, component] (ordered mapping)
    placements,     \* netlist: sequence of placement entries (ordered mapping)
    component_refs, \* buildCircuit.py: instance name -> reference transform
    pc,             \* position inside build_circuit_from_dict
    idx,            \* index of the next entry of the loop pc names
    log,            \* lines printed so far: set of [level, about]
    raised,         \* exception that left build_circuit_from_dict
    sb,             \* state of one S-bend synthesis (see further down)
    routes,         \* netlist: sequence of route groups (ordered mapping)
    rt,             \* routing pass: group, link and the routes completed
    gds,            \* build_gds: what became of the output file
    gr,             \* state of one focusing_grating_coupler synthesis
    gui,            \* preview window: comp_cache and the last answer
    cell,           \* one synthesis of a four-port pdk cell
    grid,           \* one call of GridMapper.get_center_of_cell
    tr,             \* one run of parse_ai_response
    pv,             \* one run of the preview resolver
    app             \* gui_app: widgets, worker threads, main-loop queue

vars == <<instances, placements, component_refs, pc, idx, log, raised, sb,
          routes, rt, gds, gr, gui, cell, grid, tr, pv, app>>

\* The variables of build_gds / build_circuit_from_dict.
buildVars == <<instances, placements, component_refs, pc, idx, log, raised,
               routes, rt, gds>>

(***************************************************************************)
(* Lattice geometry                                                        *)
(***************************************************************************)

\* Rotation of the point p by k quarter turns, counter-clockwise, about (0,0).
RECURSIVE Rot(_, _)
Rot(k, p) ==
    IF k % 4 = 0 THEN p
    ELSE Rot((k % 4) - 1, <<0 - p[2], p[1]>>)

\* A reference transform maps a local point to  Rot(rot, local) + (x, y).
Apply(t, p) ==
    LET r == Rot(t.rot, p) IN <<r[1] + t.x, r[2] + t.y>>

(***************************************************************************)
(* Bounds of the model                                                     *)
(***************************************************************************)

\* Lattice sizes of the synthesized components (scaled-down geometry).
RingBusHalf   == 3    \* half the ring's bus length
RingBusOffset == 2    \* distance of a bus from the ring centre
TaperWest     == 1    \* distance of the coupler's tab edge from its origin
TaperEast     == 4    \* distance of the coupler's wide end from its origin
BendSpan      == 2    \* extent of the 90-degree Euler bend in x and in y

\* Values the enumerated placement entries take.
AnchorX == 2
AnchorY == 1
OffsetX == 2
OffsetY == 1

(***************************************************************************)
(* Geometry Synthesizer: the ports of each component type, local frame.    *)
(* A port is [x, y, o]: position and orientation in quarter turns          *)
(* (0 = East, 1 = North, 2 = West, 3 = South).                             *)
(***************************************************************************)

Port(px, py, po) == [x |-> px, y |-> py, o |-> po]

\* pdk.ring_resonator: both buses are straights centred on x = 0 at
\* y = -/+ bus_offset; o1/o4 are their West ends, o2/o3 their East ends.
ring_resonator ==
    [o1 |-> Port(0 - RingBusHalf, 0 - RingBusOffset, 2),
     o2 |-> Port(RingBusHalf,     0 - RingBusOffset, 0),
     o3 |-> Port(RingBusHalf,     RingBusOffset,     0),
     o4 |-> Port(0 - RingBusHalf, RingBusOffset,     2)]

\* pdk.tapered_input_coupler: a horizontal chain; o1 is the West (tab) end,
\* o2 the East (wide) end of the main taper.
tapered_input_coupler ==
    [o1 |-> Port(0 - TaperWest, 0, 2),
     o2 |-> Port(TaperEast,     0, 0)]

\* pdk.euler_bend with angle = 90: enters at the origin heading East,
\* leaves heading North.
euler_bend ==
    [o1 |-> Port(0, 0, 2),
     o2 |-> Port(BendSpan, BendSpan, 1)]

\* The component factories build_circuit_from_dict can find
\* (pdk.get_cell / pdk.cells / gf.components).
CELLS ==
    [ring_resonator        |-> ring_resonator,
     tapered_input_coupler |-> tapered_input_coupler,
     euler_bend            |-> euler_bend]

KnownType(component_type) == component_type \in DOMAIN CELLS

(***************************************************************************)
(* Reference operations of the layout engine, as build_circuit_from_dict   *)
(* uses them.                                                              *)
(***************************************************************************)

\* c.add_ref(comp): a new reference sits at the origin, unrotated.
NewRef(component_type) ==
    [component |-> component_type, x |-> 0, y |-> 0, rot |-> 0]

\* ref.ports of a reference, local frame.
PortsOf(ref) == CELLS[ref.component]

\* ref.move((dx, dy)): translate the reference.
Move(ref, dx, dy) == [ref EXCEPT !.x = ref.x + dx, !.y = ref.y + dy]

\* ref.rotate(k): rotate the reference about the origin (0, 0) of the
\* parent component (the default centre of rotate).
Rotate(ref, k) ==
    LET q == Rot(k, <<ref.x, ref.y>>)
    IN  [ref EXCEPT !.x = q[1], !.y = q[2], !.rot = (ref.rot + k) % 4]

\* ref.ports[name]: the port in world space.
WorldPort(ref, name) ==
    LET lp == PortsOf(ref)[name]
        q  == Apply(ref, <<lp.x, lp.y>>)
    IN  Port(q[1], q[2], (lp.o + ref.rot) % 4)

\* ref.connect(my_port, target): the reference's transform is REPLACED by
\* the one that puts my_port on the target port, facing it.  (The ports of
\* the modelled components share one width and layer, so connect's
\* mismatch checks pass.)
Connect(ref, my_port, target) ==
    LET lp == PortsOf(ref)[my_port]
        k  == (target.o + 2 - lp.o + 4) % 4
        q  == Rot(k, <<lp.x, lp.y>>)
    IN  [ref EXCEPT !.x = target.x - q[1], !.y = target.y - q[2], !.rot = k]

(***************************************************************************)
(* The netlists the model enumerates                                       *)
(***************************************************************************)

Names == {"a", "b", "c"}

Instance(n, ct) == [name |-> n, component |-> ct]

\* The `instances` mappings: the full circuit, the circuit without "c"
\* (placements that name "c" then refer to a nonexistent instance), and a
\* circuit with a component type no factory provides.
InstanceChoices ==
    { << Instance("a", "ring_resonator"),
         Instance("b", "tapered_input_coupler"),
         Instance("c", "euler_bend") >>,
      << Instance("a", "ring_resonator"),
         Instance("b", "tapered_input_coupler") >>,
      << Instance("a", "ring_resonator"),
         Instance("b", "mystery_component") >> }

\* A `to` string "inst,port": with a comma it splits into (inst, port).
ToRef(hasComma, i, p) == [comma |-> hasComma, inst |-> i, port |-> p]
NoTo == ToRef(FALSE, "", "")

\* An anchor entry {x, y, rotation}; numeric is FALSE when x or y is a
\* string that float() rejects.
AnchorEntry(n, ax, ay, isNum, r) ==
    [name |-> n, hasTo |-> FALSE, x |-> ax, y |-> ay, numeric |-> isNum,
     rotation |-> r, to |-> NoTo, port |-> "", dx |-> 0, dy |-> 0]

\* A relative entry {to, port, dx, dy, rotation}.
RelativeEntry(n, t, mp, ddx, ddy, r) ==
    [name |-> n, hasTo |-> TRUE, x |-> 0, y |-> 0, numeric |-> TRUE,
     rotation |-> r, to |-> t, port |-> mp, dx |-> ddx, dy |-> ddy]

\* Anchor shapes <<x, y, rotation>>; rotation in quarter turns.
AnchorShapes ==
    { <<0, 0, 0>>, <<AnchorX, AnchorY, 0>>, <<AnchorX, AnchorY, 1>> }

\* Relative shapes <<target port, my port, dx, dy, rotation>>; "o9" is a
\* port no component has.
RelativeShapes ==
    { <<"o1", "o2", 0, 0, 0>>,
      <<"o2", "o1", 0 - OffsetX, OffsetY, 0>>,
      <<"o1", "o2", 0 - OffsetX, OffsetY, 1>>,
      <<"o9", "o2", 0, 0, 0>>,
      <<"o1", "o9", 0, 0, 0>> }

EntriesOf(n) ==
    { AnchorEntry(n, a[1], a[2], TRUE, a[3]) : a \in AnchorShapes }
    \cup { AnchorEntry(n, 0, 0, FALSE, 0) }
    \cup { RelativeEntry(n, ToRef(TRUE, t, r[1]), r[2], r[3], r[4], r[5]) :
             t \in Names \ {n}, r \in RelativeShapes }
    \cup { RelativeEntry(n, NoTo, "o1", 0, 0, 0) }

\* Sequences without repetition over a set (the key orders of a mapping).
RECURSIVE Orders(_)
Orders(S) ==
    IF S = {} THEN { <<>> }
    ELSE UNION { { <<n>> \o rest : rest \in Orders(S \ {n}) } : n \in S }

\* Every placements mapping with the given key order.
RECURSIVE PlacementsWithKeys(_)
PlacementsWithKeys(keys) ==
    IF keys = <<>> THEN { <<>> }
    ELSE { <<e>> \o rest : e \in EntriesOf(Head(keys)),
                          rest \in PlacementsWithKeys(Tail(keys)) }

PlacementChoices ==
    UNION { PlacementsWithKeys(keys) :
              keys \in UNION { Orders(S) : S \in SUBSET Names } }

(***************************************************************************)
(* build_circuit_from_dict                                                 *)
(***************************************************************************)

NoError == [kind |-> "none", names |-> {}]

Line(lvl, n, m) == [level |-> lvl, about |-> n, msg |-> m]

Outcome(refs, lg) == [refs |-> refs, log |-> lg]

\* Lines 69-76: the placements without `to`, in declaration order.
AnchorPlacements(pl) == SelectSeq(pl, LAMBDA e : ~e.hasTo)

\* Lines 69-76: the placements with `to`, in declaration order.
RelativePlacements(pl) == SelectSeq(pl, LAMBDA e : e.hasTo)

\* Lines 79-101: the body of the anchor loop for one entry.
PlaceAnchorEntry(refs, lg, e) ==
    IF e.name \notin DOMAIN refs
    THEN Outcome(refs, lg \cup {Line("WARNING", e.name, "instance not found")})
    ELSE IF ~e.numeric
    THEN Outcome(refs, lg \cup {Line("ERROR", e.name, "invalid placement")})
    ELSE LET moved == Move(refs[e.name], e.x, e.y)
             final == IF e.rotation # 0 THEN Rotate(moved, e.rotation)
                      ELSE moved
         IN  Outcome([refs EXCEPT ![e.name] = final], lg)

\* Lines 104-150: the body of the relative loop for one entry.
PlaceRelativeEntry(refs, lg, e) ==
    IF e.name \notin DOMAIN refs
    THEN Outcome(refs, lg \cup {Line("WARNING", e.name, "instance not found")})
    ELSE IF ~e.to.comma
    THEN Outcome(refs, lg \cup {Line("WARNING", e.name, "invalid to format")})
    ELSE IF e.to.inst \notin DOMAIN refs
    THEN Outcome(refs, lg \cup {Line("WARNING", e.name, "target not found")})
    ELSE IF e.to.port \notin DOMAIN PortsOf(refs[e.to.inst])
    THEN Outcome(refs, lg \cup {Line("WARNING", e.name, "port not found")})
    ELSE IF e.port \notin DOMAIN PortsOf(refs[e.name])
    THEN \* ref.connect raises; the except clause prints and continues
         Outcome(refs, lg \cup {Line("WARNING", e.name, "failed to connect")})
    ELSE LET connected == Connect(refs[e.name], e.port,
                                  WorldPort(refs[e.to.inst], e.to.port))
             moved == IF e.dx # 0 \/ e.dy # 0
                      THEN Move(connected, e.dx, e.dy) ELSE connected
             final == IF e.rotation # 0 THEN Rotate(moved, e.rotation)
                      ELSE moved
         IN  Outcome([refs EXCEPT ![e.name] = final], lg)

\* Where control is after entry i of the loop `phase` has been handled:
\* the next entry of that loop, or the first entry of the next non-empty
\* loop; "routes" is the start of the routing pass.
RECURSIVE After(_, _, _, _)
After(phase, i, insts, pl) ==
    CASE phase = "create" ->
           IF i <= Len(insts) THEN <<phase, i>>
           ELSE After("anchors", 1, insts, pl)
      [] phase = "anchors" ->
           IF i <= Len(AnchorPlacements(pl)) THEN <<phase, i>>
           ELSE After("relative", 1, insts, pl)
      [] phase = "relative" ->
           IF i <= Len(RelativePlacements(pl)) THEN <<phase, i>>
           ELSE <<"routes", 1>>
      [] OTHER -> <<phase, i>>

\* Line 55: the error raised for a type no factory provides.
value_error_anonymous(component_type) ==
    [kind |-> "ValueError", names |-> {}]

value_error(component_type) ==
    [kind |-> "ValueError", names |-> {component_type}]

\* Lines 34-65: one iteration of the instance loop.
CreateInstance ==
    /\ pc = "create"
    /\ idx <= Len(instances)
    /\ LET inst == instances[idx] IN
       IF ~KnownType(inst.component)
       THEN /\ raised' = value_error(inst.component)
            /\ pc' = "raised"
            /\ UNCHANGED <<component_refs, idx>>
       ELSE /\ component_refs' =
                 [n \in DOMAIN component_refs \cup {inst.name} |->
                    IF n = inst.name THEN NewRef(inst.component)
                    ELSE component_refs[n]]
            /\ pc' = After("create", idx + 1, instances, placements)[1]
            /\ idx' = After("create", idx + 1, instances, placements)[2]
            /\ UNCHANGED raised
    /\ UNCHANGED <<instances, placements, log, sb, routes, rt, gds, gr, gui, cell, grid, tr, pv, app>>

\* Lines 79-101: one iteration of the anchor loop.
PlaceAnchor ==
    /\ pc = "anchors"
    /\ idx <= Len(AnchorPlacements(placements))
    /\ LET out == PlaceAnchorEntry(component_refs, log,
                                   AnchorPlacements(placements)[idx]) IN
       /\ component_refs' = out.refs
       /\ log' = out.log
    /\ pc' = After("anchors", idx + 1, instances, placements)[1]
    /\ idx' = After("anchors", idx + 1, instances, placements)[2]
    /\ UNCHANGED <<instances, placements, raised, sb, routes, rt, gds, gr, gui, cell, grid, tr, pv, app>>

\* Lines 104-150: one iteration of the relative loop.
PlaceRelative ==
    /\ pc = "relative"
    /\ idx <= Len(RelativePlacements(placements))
    /\ LET out == PlaceRelativeEntry(component_refs, log,
                                     RelativePlacements(placements)[idx]) IN
       /\ component_refs' = out.refs
       /\ log' = out.log
    /\ pc' = After("relative", idx + 1, instances, placements)[1]
    /\ idx' = After("relative", idx + 1, instances, placements)[2]
    /\ UNCHANGED <<instances, placements, raised, sb, routes, rt, gds, gr, gui, cell, grid, tr, pv, app>>

\* A link "inst,port": "inst,port" of a route group.
Link(s, t) == [src |-> s, dst |-> t]

\* The links a netlist can declare: two good links that end on the same
\* port, a link to instance "c" (absent from two of the circuits), a link
\* from a port no component has, and two links with an endpoint string
\* that has no comma.
LinkChoices ==
    { Link(ToRef(TRUE, "a", "o2"), ToRef(TRUE, "b", "o1")),
      Link(ToRef(TRUE, "a", "o3"), ToRef(TRUE, "b", "o1")),
      Link(ToRef(TRUE, "a", "o4"), ToRef(TRUE, "c", "o1")),
      Link(ToRef(TRUE, "a", "o9"), ToRef(TRUE, "b", "o2")),
      Link(ToRef(FALSE, "a", ""), ToRef(TRUE, "b", "o1")),
      Link(ToRef(TRUE, "b", "o2"), ToRef(FALSE, "a", "")) }

\* The `links` mappings of a group: one link, or two with different keys.
LinksChoices ==
    { <<l>> : l \in LinkChoices }
    \cup { <<p[1], p[2]>> :
              p \in {q \in LinkChoices \X LinkChoices : q[1].src # q[2].src} }

\* A route group {links, settings}; cross_section is "" when the settings
\* do not name one.
RouteGroup(ls, xs) == [links |-> ls, cross_section |-> xs]

GroupChoices ==
    { RouteGroup(ls, xs) : ls \in LinksChoices, xs \in {"", "strip"} }

\* The `routes` mappings: none, one group, or two groups.
RouteChoices ==
    { << >> } \cup { <<g>> : g \in GroupChoices }
    \cup { <<g, h>> : g \in GroupChoices, h \in GroupChoices }

\* The placements of the routed circuits: "a" anchored at the origin and
\* "b" connected to it.
RoutedPlacements ==
    { << AnchorEntry("a", 0, 0, TRUE, 0),
         RelativeEntry("b", ToRef(TRUE, "a", "o2"), "o1", 0, 0, 0) >> }

\* Lines 236, 252 and 177-195: the cross-section a group's links are drawn
\* with; build_gds registers strip_1p2, the library provides strip.
cross_section_of(group) ==
    IF group.cross_section = "" THEN "strip_1p2" ELSE group.cross_section

\* Lines 158-207: the body of the link loop for one link; routed says
\* whether route_single returned (TRUE) or raised (FALSE).
RouteOneLink(refs, done, lg, group, link, routed) ==
    IF ~link.src.comma \/ ~link.dst.comma
    THEN [completed |-> done, log |-> lg, failed |-> TRUE]
    ELSE IF link.src.inst \notin DOMAIN refs \/ link.dst.inst \notin DOMAIN refs
    THEN [completed |-> done, log |-> lg, failed |-> TRUE]
    ELSE IF \/ link.src.port \notin DOMAIN PortsOf(refs[link.src.inst])
            \/ link.dst.port \notin DOMAIN PortsOf(refs[link.dst.inst])
            \/ ~routed
    THEN [completed |-> done,
          log |-> lg \cup {Line("WARNING", link, "failed to create route")},
          failed |-> TRUE]
    ELSE [completed |-> Append(done, [src |-> link.src, dst |-> link.dst,
                                      cross_section |-> cross_section_of(group)]),
          log |-> lg, failed |-> FALSE]

\* Lines 154-158 and 206-207: the position of the two nested loops after
\* link l of group g; a failed link does not change it.
after_link_abort(failed, rts, g, l) ==
    IF failed THEN <<Len(rts) + 1, 1>>
    ELSE IF l < Len(rts[g].links) THEN <<g, l + 1>> ELSE <<g + 1, 1>>

after_link(failed, rts, g, l) ==
    IF l < Len(rts[g].links) THEN <<g, l + 1>> ELSE <<g + 1, 1>>

\* Lines 158-207: one iteration of the link loop.
RouteLink ==
    /\ pc = "routes"
    /\ rt.group <= Len(routes)
    /\ \E routed \in BOOLEAN :
         LET group == routes[rt.group]
             link == group.links[rt.link]
             out == RouteOneLink(component_refs, rt.completed, log, group,
                                 link, routed)
             pos == after_link(out.failed, routes, rt.group, rt.link)
         IN  /\ rt' = [group |-> pos[1], link |-> pos[2],
                       completed |-> out.completed]
             /\ log' = out.log
    /\ UNCHANGED <<instances, placements, component_refs, pc, idx, raised,
                   routes, gds, sb, gr, gui, cell, grid, tr, pv, app>>

\* Line 209: return c.
ReturnCircuit ==
    /\ pc = "routes"
    /\ rt.group > Len(routes)
    /\ pc' = "built"
    /\ UNCHANGED <<instances, placements, component_refs, idx, log, raised,
                   routes, rt, gds, sb, gr, gui, cell, grid, tr, pv, app>>

\* Lines 265-269 of build_gds: the except clause prints and returns.
CatchBuildError ==
    /\ pc = "raised"
    /\ pc' = "failed"
    /\ log' = log \cup {Line("ERROR", "", "error parsing YAML")}
    /\ UNCHANGED <<instances, placements, component_refs, idx, raised,
                   routes, rt, gds, sb, gr, gui, cell, grid, tr, pv, app>>

\* Lines 271-276 of build_gds: c.write_gds(output_gds).
WriteGds ==
    /\ pc = "built"
    /\ pc' = "saved"
    /\ gds' = "written"
    /\ log' = log \cup {Line("SUCCESS", "", "GDS saved")}
    /\ UNCHANGED <<instances, placements, component_refs, idx, raised,
                   routes, rt, sb, gr, gui, cell, grid, tr, pv, app>>

NoSBend == [pc |-> "idle"]

NoGrating == [pc |-> "idle"]

NoGui == [pc |-> "idle"]

\* The subsystems further down are not running.
LaterIdle ==
    /\ cell = [pc |-> "idle"]
    /\ grid = [pc |-> "idle"]
    /\ tr = [pc |-> "idle"]
    /\ pv = [pc |-> "idle"]
    /\ app = [pc |-> "idle"]

\* No route group has been read and no route drawn.
NoRouting == [group |-> 1, link |-> 1, completed |-> << >>]

\* The netlists: every placements mapping without routes, and the routed
\* circuits with every routes mapping.
InitBuild ==
    /\ instances \in InstanceChoices
    /\ \/ placements \in PlacementChoices /\ routes = << >>
       \/ placements \in RoutedPlacements /\ routes \in RouteChoices
    /\ component_refs = << >>
    /\ pc = "create"
    /\ idx = 1
    /\ log = {}
    /\ raised = NoError
    /\ sb = NoSBend
    /\ rt = NoRouting
    /\ gds = "none"
    /\ LaterIdle
    /\ gr = NoGrating
    /\ gui = NoGui

NextBuild ==
    \/ CreateInstance
    \/ PlaceAnchor
    \/ PlaceRelative
    \/ RouteLink
    \/ ReturnCircuit
    \/ CatchBuildError
    \/ WriteGds

SpecBuild == InitBuild /\ [][NextBuild]_vars

\* The placement phase of build_circuit_from_dict has run to its end.
PlacementDone == pc = "routes"

(***************************************************************************)
(* Placement claims                                                        *)
(***************************************************************************)

\* The whole placement phase as a function of the netlist: every instance
\* created, then the anchor loop, then the relative loop.
RECURSIVE PlaceAnchors(_, _, _)
PlaceAnchors(refs, lg, entries) ==
    IF entries = <<>> THEN Outcome(refs, lg)
    ELSE LET out == PlaceAnchorEntry(refs, lg, Head(entries))
         IN  PlaceAnchors(out.refs, out.log, Tail(entries))

RECURSIVE PlaceRelatives(_, _, _)
PlaceRelatives(refs, lg, entries) ==
    IF entries = <<>> THEN Outcome(refs, lg)
    ELSE LET out == PlaceRelativeEntry(refs, lg, Head(entries))
         IN  PlaceRelatives(out.refs, out.log, Tail(entries))

CreatedRefs(insts) ==
    [n \in {insts[i].name : i \in 1..Len(insts)} |->
       NewRef((CHOOSE inst \in {insts[i] : i \in 1..Len(insts)} :
                 inst.name = n).component)]

PlacementPhase(insts, pl) ==
    LET anchored == PlaceAnchors(CreatedRefs(insts), {}, AnchorPlacements(pl))
    IN  PlaceRelatives(anchored.refs, anchored.log, RelativePlacements(pl)).refs

\* The placements mapping with its entries declared in another order.
Reorderings(pl) ==
    { [i \in 1..Len(pl) |-> pl[o[i]]] : o \in Orders(1..Len(pl)) }

EntrySet(pl) == {pl[i] : i \in 1..Len(pl)}

InstanceNames == DOMAIN component_refs

\* A relative entry the builder placed: both instances exist, the `to`
\* string parses, and both ports exist (connect ran).
IsPlaced(e) ==
    /\ e.hasTo
    /\ e.name \in InstanceNames
    /\ e.to.comma
    /\ e.to.inst \in InstanceNames
    /\ e.to.port \in DOMAIN PortsOf(component_refs[e.to.inst])
    /\ e.port \in DOMAIN PortsOf(component_refs[e.name])

\* An anchor entry the builder applied.
IsAnchored(e) == ~e.hasTo /\ e.name \in InstanceNames /\ e.numeric

\* The instances a correct resolver can place: the applied anchors, and
\* every relative entry whose target is resolvable and whose ports exist.
RECURSIVE Resolvable(_, _)
Resolvable(pl, known) ==
    LET more == { e.name : e \in { f \in EntrySet(pl) :
                     \/ IsAnchored(f)
                     \/ IsPlaced(f) /\ f.to.inst \in known } }
    IN  IF more \subseteq known THEN known
        ELSE Resolvable(pl, known \cup more)

\* The relative placements that can never be resolved.
Residual(pl) ==
    { e.name : e \in { f \in EntrySet(pl) : f.hasTo } } \ Resolvable(pl, {})

AnchorNames(pl) ==
    {AnchorPlacements(pl)[i].name : i \in 1..Len(AnchorPlacements(pl))}

\* Exactly one anchor entry, and it names an instance and is numeric.
OneAnchor(pl) ==
    /\ Len(AnchorPlacements(pl)) = 1
    /\ IsAnchored(AnchorPlacements(pl)[1])

\* A netlist the data model calls valid: exactly one anchor and every
\* relative placement reaches it.
WellFormed(pl) == OneAnchor(pl) /\ Residual(pl) = {}

\* My port sits on the target port shifted by (dx, dy).
PortAligned(e) ==
    LET mine   == WorldPort(component_refs[e.name], e.port)
        target == WorldPort(component_refs[e.to.inst], e.to.port)
    IN  /\ mine.x = target.x + e.dx
        /\ mine.y = target.y + e.dy

\* C1: after the placement phase of a valid netlist, for every relative
\* placement that was placed, the world position of its own port equals
\* the final world position of the target port plus (dx, dy), whatever the
\* rotation and wherever the target's own entry is declared.
C1_RelativePortLandsOnTarget ==
    (PlacementDone /\ WellFormed(placements)) =>
        \A e \in EntrySet(placements) : IsPlaced(e) => PortAligned(e)

\* C2: with exactly one anchor placement {x, y, rotation}, the anchor's
\* resolved transform is exactly the declared one: position (x, y) and
\* the declared rotation, for every declared rotation.
C2_AnchorTransformIsDeclared ==
    (PlacementDone /\ OneAnchor(placements)) =>
        LET e == AnchorPlacements(placements)[1] IN
            /\ component_refs[e.name].x = e.x
            /\ component_refs[e.name].y = e.y
            /\ component_refs[e.name].rot = e.rotation

\* A is placed relative to B and B relative to A.
Cyclic(pl, A, B) ==
    /\ A # B
    /\ \E e \in EntrySet(pl) : e.hasTo /\ e.name = A /\ e.to.comma /\ e.to.inst = B
    /\ \E e \in EntrySet(pl) : e.hasTo /\ e.name = B /\ e.to.comma /\ e.to.inst = A

\* C3: a netlist (with its one anchor) whose relative placements form a
\* cycle A <-> B does not get through the placement phase: it fails with
\* UnresolvedPlacement naming both A and B, and neither is given
\* coordinates.
C3_CycleFailsUnresolved ==
    \A A, B \in Names :
        (PlacementDone /\ {A, B} \subseteq InstanceNames
           /\ OneAnchor(placements)
           /\ Cyclic(placements, A, B)) =>
            /\ raised.kind = "UnresolvedPlacement"
            /\ {A, B} \subseteq raised.names
            /\ component_refs[A] = NewRef(component_refs[A].component)
            /\ component_refs[B] = NewRef(component_refs[B].component)

\* C4: placement succeeds only with exactly one anchor; with zero or with
\* two or more it fails with AmbiguousAnchor naming all the anchors and
\* places nothing.
C4_ExactlyOneAnchor ==
    (PlacementDone /\ Len(AnchorPlacements(placements)) # 1) =>
        /\ raised.kind = "AmbiguousAnchor"
        /\ raised.names = AnchorNames(placements)
        /\ \A n \in InstanceNames :
              component_refs[n] = NewRef(component_refs[n].component)

\* C5: when some relative placement of a netlist with one anchor can
\* never be resolved, the placement phase does not complete: it fails with
\* UnresolvedPlacement naming the full residual set.
C5_DanglingFailsUnresolved ==
    (PlacementDone /\ OneAnchor(placements)
       /\ Residual(placements) # {}) =>
        /\ raised.kind = "UnresolvedPlacement"
        /\ raised.names = Residual(placements)

\* C6: for a valid netlist the final coordinates of every instance are
\* the same for every declaration order of the placement entries.
C6_DeclarationOrderIrrelevant ==
    (PlacementDone /\ WellFormed(placements)) =>
        \A other \in Reorderings(placements) :
            PlacementPhase(instances, other) = component_refs

(***************************************************************************)
(* Height-matched S-bend stitching                                         *)
(*                                                                         *)
(* Lengths are integers in units of 0.0001 um.  A straight length is the   *)
(* quotient of two floats in the code; it is kept as an exact fraction     *)
(* [num, den] here.  The single Euler bend comes from the curve engine     *)
(* (gf.path.euler + extrude): what the helper reads from it - the port     *)
(* names and the raw span |p2.y - p1.y| - is an input of the model.        *)
(***************************************************************************)

\* `raw_dy > 500`: the raw span above which the helper takes it for
\* nanometres (500, in model units).
DbuTrigger == 5000000

\* `straight_length > 0.001` (0.001 um, in model units).
StraightThreshold == 10

\* sin(angle) of the bend angles the model draws, as fractions
\* (sin 20 is rounded to 0.34).
Angles == {20, 30, 90}

Sin(angle) ==
    CASE angle = 20 -> [num |-> 17, den |-> 50]
      [] angle = 30 -> [num |-> 1,  den |-> 2]
      [] angle = 90 -> [num |-> 1,  den |-> 1]

\* What the engine hands back for one bend: raw is |p2.y - p1.y| as a
\* number (times 10^4), unit is what that number counts (microns, or
\* database units of 1 nm), ports the names of the extruded bend's ports.
\* Raw values above the trigger are multiples of 1000, so that the
\* multiplication by 0.001 is exact on the lattice.
Reading(r, u) == [raw |-> r, unit |-> u]

Readings ==
    { Reading(120000, "um"),        \* 12 um
      Reading(189000, "um"),        \* 18.9 um
      Reading(5000000, "um"),       \* 500 um, exactly at the trigger
      Reading(5010000, "um"),       \* 501 um, read in microns
      Reading(120000000, "dbu"),    \* 12000 nm = 12 um
      Reading(4000000, "dbu") }     \* 400 nm = 0.4 um

PortStyles == { {"o1", "o2"}, {"1", "2"} }

\* The span of the bend in microns (model units), whatever the engine's
\* unit was.
TrueSpan(reading) ==
    IF reading.unit = "dbu" THEN reading.raw \div 1000 ELSE reading.raw

DyTargets ==
    { 0, 200000, 240000, 240005, 240010, 240020, 378000, 400000 }

\* One synthesized S-bend: the measured and derived numbers, the stitched
\* parts in order, the two exposed ports as <<part index, port name>>, and
\* the vertical displacement o2.y - o1.y of the stitched geometry.
NoSBendResult ==
    [done |-> FALSE, bend_height |-> 0, straight_dy_needed |-> 0,
     straight_length |-> [num |-> 0, den |-> 1], parts |-> << >>,
     o1 |-> <<0, "">>, o2 |-> <<0, "">>, rise |-> 0]

\* The vertical projection of a straight of length len leaving the first
\* bend at `angle`: len * sin(angle).
StraightRise(len, angle) ==
    (len.num * Sin(angle).num) \div (len.den * Sin(angle).den)

\* ---- pdk._create_precise_euler_sbend ----

\* Lines 103-114: bend height with the unit correction.
pdk_bend_height(raw_dy) ==
    LET dbu_is_nm == raw_dy > DbuTrigger
    IN  IF dbu_is_nm THEN raw_dy \div 1000 ELSE raw_dy

\* Mutant: the clamp at 0 is missing.
pdk_straight_dy_needed_unclamped(bend_height, dy_target) ==
    dy_target - 2 * bend_height

\* Lines 117-122: the height left for the straight, clamped at 0.
pdk_straight_dy_needed(bend_height, dy_target) ==
    LET min_required_height == 2 * bend_height
        straight_dy_needed  == dy_target - min_required_height
    IN  IF straight_dy_needed < 0 THEN 0 ELSE straight_dy_needed

\* Mutant: multiplies by sin(theta) instead of dividing.
pdk_straight_length_times_sin(straight_dy_needed, angle) ==
    [num |-> straight_dy_needed * Sin(angle).num, den |-> Sin(angle).den]

\* Lines 125-126: straight_dy_needed / sin(theta).
pdk_straight_length(straight_dy_needed, angle) ==
    [num |-> straight_dy_needed * Sin(angle).den, den |-> Sin(angle).num]

\* Line 137: is the straight inserted.
pdk_has_straight(straight_length) ==
    straight_length.num > StraightThreshold * straight_length.den

\* Lines 91-152.
pdk_create_precise_euler_sbend(reading, ports, angle, dy_target) ==
    LET bend_height == pdk_bend_height(reading.raw)
        needed == pdk_straight_dy_needed(bend_height, dy_target)
        straight_length == pdk_straight_length(needed, angle)
        in_name  == IF "o1" \in ports THEN "o1" ELSE "1"
        out_name == IF "o2" \in ports THEN "o2" ELSE "2"
        parts == IF pdk_has_straight(straight_length)
                 THEN <<"bend_c", "straight", "bend_c.mirror_y">>
                 ELSE <<"bend_c", "bend_c.mirror_y">>
    IN  [done |-> TRUE,
         bend_height |-> bend_height,
         straight_dy_needed |-> needed,
         straight_length |-> straight_length,
         parts |-> parts,
         o1 |-> <<1, in_name>>,
         o2 |-> <<Len(parts), out_name>>,
         rise |-> 2 * TrueSpan(reading)
                  + (IF pdk_has_straight(straight_length)
                     THEN StraightRise(straight_length, angle) ELSE 0)]

\* ---- tunable_beam_splitter.create_precise_euler_sbend ----

\* Lines 16-27.
tbs_bend_height(raw_dy) ==
    LET dbu_is_nm == raw_dy > DbuTrigger
    IN  IF dbu_is_nm THEN raw_dy \div 1000 ELSE raw_dy

\* Lines 30-35.
tbs_straight_dy_needed(bend_height, dy_target) ==
    LET min_required_height == 2 * bend_height
        straight_dy_needed  == dy_target - min_required_height
    IN  IF straight_dy_needed < 0 THEN 0 ELSE straight_dy_needed

\* Lines 38-39.
tbs_straight_length(straight_dy_needed, angle) ==
    [num |-> straight_dy_needed * Sin(angle).den, den |-> Sin(angle).num]

\* Mutant: the copy inserts the straight at the threshold too.
tbs_has_straight_at_threshold(straight_length) ==
    straight_length.num >= StraightThreshold * straight_length.den

\* Line 50.
tbs_has_straight(straight_length) ==
    straight_length.num > StraightThreshold * straight_length.den

\* Lines 4-65.
tbs_create_precise_euler_sbend(reading, ports, angle, dy_target) ==
    LET bend_height == tbs_bend_height(reading.raw)
        needed == tbs_straight_dy_needed(bend_height, dy_target)
        straight_length == tbs_straight_length(needed, angle)
        in_name  == IF "o1" \in ports THEN "o1" ELSE "1"
        out_name == IF "o2" \in ports THEN "o2" ELSE "2"
        parts == IF tbs_has_straight(straight_length)
                 THEN <<"bend_c", "straight", "bend_c.mirror_y">>
                 ELSE <<"bend_c", "bend_c.mirror_y">>
    IN  [done |-> TRUE,
         bend_height |-> bend_height,
         straight_dy_needed |-> needed,
         straight_length |-> straight_length,
         parts |-> parts,
         o1 |-> <<1, in_name>>,
         o2 |-> <<Len(parts), out_name>>,
         rise |-> 2 * TrueSpan(reading)
                  + (IF tbs_has_straight(straight_length)
                     THEN StraightRise(straight_length, angle) ELSE 0)]

\* mzi_no_heater / racetrack_resonator call the pdk helper.
CallPdkSBend ==
    /\ sb.pc = "synthesize"
    /\ ~sb.pdk.done
    /\ sb' = [sb EXCEPT !.pdk = pdk_create_precise_euler_sbend(
                  sb.reading, sb.ports, sb.angle, sb.dy_target)]
    /\ UNCHANGED <<buildVars, gr, gui, cell, grid, tr, pv, app>>

\* tunable_beam_splitter calls its own copy.
CallTbsSBend ==
    /\ sb.pc = "synthesize"
    /\ ~sb.tbs.done
    /\ sb' = [sb EXCEPT !.tbs = tbs_create_precise_euler_sbend(
                  sb.reading, sb.ports, sb.angle, sb.dy_target)]
    /\ UNCHANGED <<buildVars, gr, gui, cell, grid, tr, pv, app>>

InitSBend ==
    /\ instances = << >>
    /\ placements = << >>
    /\ component_refs = << >>
    /\ pc = "idle"
    /\ idx = 1
    /\ log = {}
    /\ raised = NoError
    /\ routes = << >>
    /\ rt = NoRouting
    /\ gds = "none"
    /\ LaterIdle
    /\ gr = NoGrating
    /\ gui = NoGui
    /\ sb \in [pc : {"synthesize"}, reading : Readings, ports : PortStyles,
               angle : Angles, dy_target : DyTargets,
               pdk : {NoSBendResult}, tbs : {NoSBendResult}]

NextSBend == CallPdkSBend \/ CallTbsSBend

SpecSBend == InitSBend /\ [][NextSBend]_vars

(***************************************************************************)
(* S-bend claims                                                           *)
(***************************************************************************)

\* The unit-corrected span s of one bend, as the specification defines it:
\* the raw span, divided by 1000 when it exceeds 500.
MeasuredSpan(reading) ==
    IF reading.raw > 5000000 THEN reading.raw \div 1000 ELSE reading.raw

BendsOnly == <<"bend_c", "bend_c.mirror_y">>

Clamped(result) ==
    /\ result.straight_length.num = 0
    /\ result.parts = BendsOnly

\* C7: for every dy_target smaller than twice the measured single-bend
\* span the straight length is exactly 0, no straight is inserted, and the
\* result is the bend followed directly by the mirrored bend.
C7_ShortTargetClampsStraight ==
    sb.pc = "synthesize" =>
        \A result \in {sb.pdk, sb.tbs} :
            (result.done /\ sb.dy_target < 2 * MeasuredSpan(sb.reading)) =>
                Clamped(result)

C7_Witness ==
    /\ sb.pc = "synthesize"
    /\ sb.pdk.done /\ sb.tbs.done
    /\ sb.dy_target > 0
    /\ sb.dy_target < 2 * MeasuredSpan(sb.reading)
    /\ Clamped(sb.pdk) /\ Clamped(sb.tbs)

\* C8: for every dy_target at or above twice the single-bend span s, the
\* stitched S-bend has a vertical displacement between o1 and o2 equal to
\* dy_target exactly (readings whose unit the helper detects correctly).
C8_RiseEqualsTarget ==
    (/\ sb.pc = "synthesize"
     /\ sb.pdk.done
     /\ TrueSpan(sb.reading) = MeasuredSpan(sb.reading)
     /\ sb.dy_target >= 2 * MeasuredSpan(sb.reading)) =>
        sb.pdk.rise = sb.dy_target

\* straight_length = (dy_target - 2 s) / sin(angle), cross-multiplied.
IsTargetOverSine(result) ==
    result.straight_length.num * Sin(sb.angle).num
        = (sb.dy_target - 2 * MeasuredSpan(sb.reading))
            * Sin(sb.angle).den * result.straight_length.den

\* C9: whenever dy_target >= 2 s, the straight length of
\* _create_precise_euler_sbend equals (dy_target - 2 s) / sin(angle), s the
\* unit-corrected span of one bend.
C9_StraightLengthFormula ==
    (/\ sb.pc = "synthesize"
     /\ sb.pdk.done
     /\ sb.dy_target >= 2 * MeasuredSpan(sb.reading)) =>
        IsTargetOverSine(sb.pdk)

\* dy_target = 40 um at 20 degrees, above twice the span.
C9_Witness ==
    /\ sb.pc = "synthesize"
    /\ sb.pdk.done
    /\ sb.dy_target = 400000
    /\ sb.angle = 20
    /\ sb.dy_target > 2 * MeasuredSpan(sb.reading)
    /\ sb.pdk.straight_length.num > 0
    /\ IsTargetOverSine(sb.pdk)

\* C10: the pdk helper and the tunable_beam_splitter helper produce, for
\* the same inputs and the same measured raw span, the same bend height,
\* the same straight length, the same decision about the straight and the
\* same exposed ports.
C10_HelpersAgree ==
    (sb.pc = "synthesize" /\ sb.pdk.done /\ sb.tbs.done) =>
        /\ sb.pdk.bend_height = sb.tbs.bend_height
        /\ sb.pdk.straight_length = sb.tbs.straight_length
        /\ sb.pdk.parts = sb.tbs.parts
        /\ sb.pdk.o1 = sb.tbs.o1
        /\ sb.pdk.o2 = sb.tbs.o2

\* Both helpers ran on a target exactly 0.001 um of straight above 2 s,
\* and both left the straight out.
C10_Witness ==
    /\ sb.pc = "synthesize"
    /\ sb.pdk.done /\ sb.tbs.done
    /\ sb.pdk.straight_length = [num |-> StraightThreshold, den |-> 1]
    /\ sb.pdk.parts = BendsOnly
    /\ sb.tbs.parts = BendsOnly


(***************************************************************************)
(* focusing_grating_coupler (src/gdsGen/pdk.py)                            *)
(*                                                                         *)
(* Lengths are integers in units of 0.01 um, the arguments theta_deg and    *)
(* theta_opening_deg are whole degrees, the sampled angles are in half     *)
(* degrees, duty cycles, sines, cosines and indices (neff, n_env) are in   *)
(* thousandths.  The points _gen_focusing_stripe returns are kept in half  *)
(* units (every coordinate doubled), so that the w/2 of the source is      *)
(* exact.  Divisions truncate toward zero.                                 *)
(***************************************************************************)

Abs(a) == IF a < 0 THEN -a ELSE a

\* Python's a / b, truncated to the lattice; b = 0 raises in the caller.
Quot(a, b) ==
    IF (a < 0) = (b < 0) THEN Abs(a) \div Abs(b) ELSE -(Abs(a) \div Abs(b))

\* round(num / den) of the source.
Round(num, den) ==
    IF (num < 0) = (den < 0)
    THEN (2 * Abs(num) + Abs(den)) \div (2 * Abs(den))
    ELSE -((2 * Abs(num) + Abs(den)) \div (2 * Abs(den)))

\* np.cos and np.sin in thousandths, tabulated for every half degree from 0
\* to 90 (entry h + 1 is the value at h half degrees).
cos_table ==
    <<
       1000, 1000, 1000, 1000, 999, 999, 999, 998, 998, 997, 996, 995,
       995, 994, 993, 991, 990, 989, 988, 986, 985, 983, 982, 980,
       978, 976, 974, 972, 970, 968, 966, 964, 961, 959, 956, 954,
       951, 948, 946, 943, 940, 937, 934, 930, 927, 924, 921, 917,
       914, 910, 906, 903, 899, 895, 891, 887, 883, 879, 875, 870,
       866, 862, 857, 853, 848, 843, 839, 834, 829, 824, 819, 814,
       809, 804, 799, 793, 788, 783, 777, 772, 766, 760, 755, 749,
       743, 737, 731, 725, 719, 713, 707, 701, 695, 688, 682, 676,
       669, 663, 656, 649, 643, 636, 629, 623, 616, 609, 602, 595,
       588, 581, 574, 566, 559, 552, 545, 537, 530, 522, 515, 508,
       500, 492, 485, 477, 469, 462, 454, 446, 438, 431, 423, 415,
       407, 399, 391, 383, 375, 367, 358, 350, 342, 334, 326, 317,
       309, 301, 292, 284, 276, 267, 259, 250, 242, 233, 225, 216,
       208, 199, 191, 182, 174, 165, 156, 148, 139, 131, 122, 113,
       105, 96, 87, 78, 70, 61, 52, 44, 35, 26, 17, 9,
       0 >>

sin_table ==
    <<
       0, 9, 17, 26, 35, 44, 52, 61, 70, 78, 87, 96,
       105, 113, 122, 131, 139, 148, 156, 165, 174, 182, 191, 199,
       208, 216, 225, 233, 242, 250, 259, 267, 276, 284, 292, 301,
       309, 317, 326, 334, 342, 350, 358, 367, 375, 383, 391, 399,
       407, 415, 423, 431, 438, 446, 454, 462, 469, 477, 485, 492,
       500, 508, 515, 522, 530, 537, 545, 552, 559, 566, 574, 581,
       588, 595, 602, 609, 616, 623, 629, 636, 643, 649, 656, 663,
       669, 676, 682, 688, 695, 701, 707, 713, 719, 725, 731, 737,
       743, 749, 755, 760, 766, 772, 777, 783, 788, 793, 799, 804,
       809, 814, 819, 824, 829, 834, 839, 843, 848, 853, 857, 862,
       866, 870, 875, 879, 883, 887, 891, 895, 899, 903, 906, 910,
       914, 917, 921, 924, 927, 930, 934, 937, 940, 943, 946, 948,
       951, 954, 956, 959, 961, 964, 966, 968, 970, 972, 974, 976,
       978, 980, 982, 983, 985, 986, 988, 989, 990, 991, 993, 994,
       995, 995, 996, 997, 998, 998, 999, 999, 999, 1000, 1000, 1000,
       1000 >>

\* np.cos(phi) and np.sin(phi) for an angle of h half degrees.
cos_milli(h) == cos_table[Abs(h) + 1]

sin_milli(h) == IF h < 0 THEN -sin_table[-h + 1] ELSE sin_table[h + 1]

\* Line 489: the resolution of an arc (40 in the source; even, so that no
\* sample lies on the axis).
N == 4

\* Line 483: n_env = 1.44.
n_env == 1440

\* Line 490: np.linspace(-theta_opening_deg/2, theta_opening_deg/2, N), in
\* half degrees.
phis(theta_opening_deg) ==
    [k \in 1..N |->
       Quot((2 * (k - 1) - (N - 1)) * 2 * theta_opening_deg, 2 * (N - 1))]

\* Lines 493, 500, 520: r = q*lambda0 / (neff - n_env*cos(phi)*sin_theta),
\* phi in half degrees.
radius(q, neff, theta_deg, phi, lambda0) ==
    Quot(q * lambda0 * 1000,
         neff - Quot(n_env * cos_milli(phi) * sin_milli(2 * theta_deg),
                     1000000))

\* Lines 511-513 and 522-524, doubled: side = -1 is the left arc (x - w/2),
\* side = 1 the right arc (x + w/2).
arc_point(q, neff, theta_deg, w, phi, lambda0, side) ==
    LET r == radius(q, neff, theta_deg, phi, lambda0) IN
    [x |-> 2 * Quot(r * cos_milli(phi), 1000) - 2 * r + side * w,
     y |-> 2 * Quot(r * sin_milli(phi), 1000)]

\* Python's reversed(): the same items, last first.
reversed_forward(s) == s

reversed(s) == [k \in 1..Len(s) |-> s[Len(s) + 1 - k]]

\* Lines 476-526.
_gen_focusing_stripe(q, neff, theta_deg, w, theta_opening_deg, lambda0) ==
    LET up == phis(theta_opening_deg)
        down == reversed(up)
        points_left ==
          [k \in 1..N |-> arc_point(q, neff, theta_deg, w, up[k], lambda0, -1)]
        points_right ==
          [k \in 1..N |-> arc_point(q, neff, theta_deg, w, down[k], lambda0, 1)]
    IN  points_left \o points_right


\* Lines 529-543: the default arguments.
DefaultParams ==
    [pitch |-> 116, n_periods |-> 30,
     duty_cycle_start |-> 800, duty_cycle_end |-> 420,
     taper_width |-> 100, focusing_length |-> 3750, defocus |-> -800,
     grating_width |-> 2000, theta_deg |-> 20, theta_opening_deg |-> 30,
     lambda0 |-> 155]

\* Bound on n_periods of the other parameter sets.
MaxPeriods == 3

\* The arguments a netlist's settings can pass: the defaults, and shorter
\* gratings with other pitches, duty-cycle ramps and angles.
GratingParams ==
    {DefaultParams} \cup
    {[DefaultParams EXCEPT !.pitch = p, !.n_periods = n,
                           !.duty_cycle_start = d[1], !.duty_cycle_end = d[2],
                           !.theta_deg = t, !.theta_opening_deg = o] :
       p \in {116, 0, -116}, n \in 1..MaxPeriods,
       d \in {<<800, 420>>, <<1000, 420>>, <<420, 1200>>, <<10, 10>>},
       t \in {0, 20}, o \in {30, 180}}

\* Line 551.
neff_of(p) == Quot(p.lambda0 * 1000, p.pitch) + sin_milli(2 * p.theta_deg)

\* Line 552.
q_min_of(p) ==
    Round(p.focusing_length * (neff_of(p) - sin_milli(2 * p.theta_deg)),
          p.lambda0 * 1000)

\* Line 553: np.linspace(duty_cycle_start, duty_cycle_end, n_periods).
duty_cycles(p) ==
    [i \in 1..p.n_periods |->
       IF p.n_periods = 1 THEN p.duty_cycle_start
       ELSE p.duty_cycle_start
            + Quot((i - 1) * (p.duty_cycle_end - p.duty_cycle_start),
                   p.n_periods - 1)]

\* Lines 556-557.
L_total_of(p) == p.focusing_length + p.defocus + p.pitch * p.n_periods

\* Lines 559-564, in half units like the hole polygons.
fanout_pts_of(p) ==
    << [x |-> 0, y |-> -p.taper_width],
       [x |-> 2 * L_total_of(p), y |-> -p.grating_width],
       [x |-> 2 * L_total_of(p), y |-> p.grating_width],
       [x |-> 0, y |-> p.taper_width] >>

\* Line 570.
small_buffer == 150

\* Line 571.
hole_origin_x_of(p) == p.focusing_length + p.defocus - small_buffer

\* Line 575.
w_hole_of(dc, pitch) == Quot((1000 - dc) * pitch, 1000)

\* Line 582: curr_x += pitch.
next_curr_x(curr_x, pitch) == curr_x + pitch

\* Lines 574-581: the polygon of period i (0-based, as in the source).
hole_polygon(p, i, curr_x) ==
    LET dc == duty_cycles(p)[i + 1]
        w_hole == w_hole_of(dc, p.pitch)
        q == q_min_of(p) + (i + 1)
        raw_pts == _gen_focusing_stripe(q, neff_of(p), p.theta_deg, w_hole,
                                        p.theta_opening_deg, p.lambda0)
        shift_x == hole_origin_x_of(p) + curr_x + p.pitch
    IN  [raw_pts |-> raw_pts,
         translated_pts |->
           [k \in 1..Len(raw_pts) |->
              [x |-> raw_pts[k].x + 2 * shift_x, y |-> raw_pts[k].y]]]

GratingCall(p) ==
    [pc |-> "called", params |-> p, i |-> 0, curr_x |-> 0,
     holes_polygons |-> << >>, raw_pts |-> << >>, fanout_pts |-> << >>,
     raised |-> "none", component |-> "none"]

\* Lines 548-571: derived parameters and the body; lambda0/pitch raises for
\* pitch = 0.
DeriveParameters ==
    /\ gr.pc = "called"
    /\ IF gr.params.pitch = 0
       THEN gr' = [gr EXCEPT !.pc = "raised", !.raised = "ZeroDivisionError"]
       ELSE gr' = [gr EXCEPT !.pc = "holes",
                             !.fanout_pts = fanout_pts_of(gr.params)]
    /\ UNCHANGED <<buildVars, sb, gui, cell, grid, tr, pv, app>>

\* Lines 573-582: one iteration of the hole loop.
GenerateHole ==
    /\ gr.pc = "holes"
    /\ gr.i < gr.params.n_periods
    /\ LET hole == hole_polygon(gr.params, gr.i, gr.curr_x) IN
       gr' = [gr EXCEPT
                !.raw_pts = hole.raw_pts,
                !.holes_polygons = Append(@, hole.translated_pts),
                !.curr_x = next_curr_x(@, gr.params.pitch),
                !.i = @ + 1]
    /\ UNCHANGED <<buildVars, sb, gui, cell, grid, tr, pv, app>>

\* Lines 584-618: the set difference, the taper and the port.
SubtractHoles ==
    /\ gr.pc = "holes"
    /\ gr.i = gr.params.n_periods
    /\ gr' = [gr EXCEPT !.pc = "done",
                        !.component = [A |-> gr.fanout_pts,
                                       B |-> gr.holes_polygons,
                                       operation |-> "not"]]
    /\ UNCHANGED <<buildVars, sb, gui, cell, grid, tr, pv, app>>

InitGrating ==
    /\ instances = << >>
    /\ placements = << >>
    /\ component_refs = << >>
    /\ pc = "idle"
    /\ idx = 1
    /\ log = {}
    /\ raised = NoError
    /\ routes = << >>
    /\ rt = NoRouting
    /\ gds = "none"
    /\ LaterIdle
    /\ sb = NoSBend
    /\ gui = NoGui
    /\ gr \in {GratingCall(p) : p \in GratingParams}

NextGrating == DeriveParameters \/ GenerateHole \/ SubtractHoles

SpecGrating == InitGrating /\ [][NextGrating]_vars


(***************************************************************************)
(* Grating claims                                                          *)
(***************************************************************************)

\* The synthesis has passed its derived parameters.
InHoleLoop == gr.pc \in {"holes", "done"}

\* Some period's hole width (1 - duty_cycle_i) * pitch is zero or negative.
HasDegenerateHole(p) ==
    \E i \in 1..p.n_periods : (1000 - duty_cycles(p)[i]) * p.pitch <= 0

\* Every duty cycle lies strictly between 0 and 1 and the pitch is a length.
ValidParams(p) ==
    /\ p.pitch > 0
    /\ \A i \in 1..p.n_periods :
          duty_cycles(p)[i] > 0 /\ duty_cycles(p)[i] < 1000

\* C11: a parameter set with a zero or negative hole width is rejected
\* before any arc is generated: the synthesis never holds a hole polygon
\* made from it and never completes.
C11_DegenerateHoleRejected ==
    (gr.pc # "idle" /\ HasDegenerateHole(gr.params)) =>
        /\ gr.holes_polygons = << >>
        /\ gr.pc # "done"

Sgn(v) == IF v > 0 THEN 1 ELSE IF v < 0 THEN -1 ELSE 0

\* Twice the signed area of the triangle a, b, c.
Orient(a, b, c) == (b.x - a.x) * (c.y - a.y) - (b.y - a.y) * (c.x - a.x)

\* c lies in the bounding box of the segment a, b.
InBox(a, b, c) ==
    /\ c.x >= (IF a.x < b.x THEN a.x ELSE b.x)
    /\ c.x <= (IF a.x < b.x THEN b.x ELSE a.x)
    /\ c.y >= (IF a.y < b.y THEN a.y ELSE b.y)
    /\ c.y <= (IF a.y < b.y THEN b.y ELSE a.y)

\* The closed segments a-b and c-d share a point.
SegmentsMeet(a, b, c, d) ==
    LET o1 == Sgn(Orient(a, b, c))
        o2 == Sgn(Orient(a, b, d))
        o3 == Sgn(Orient(c, d, a))
        o4 == Sgn(Orient(c, d, b))
    IN  \/ o1 # o2 /\ o3 # o4
        \/ o1 = 0 /\ InBox(a, b, c)
        \/ o2 = 0 /\ InBox(a, b, d)
        \/ o3 = 0 /\ InBox(c, d, a)
        \/ o4 = 0 /\ InBox(c, d, b)

\* The k-th edge of the closed polygon P.
EdgeOf(P, k) == <<P[k], P[(k % Len(P)) + 1]>>

\* The point v lies strictly inside the polygon P (a ray to the right of v
\* crosses an odd number of edges).
InsidePolygon(v, P) ==
    Cardinality({k \in 1..Len(P) :
        LET a == EdgeOf(P, k)[1]
            b == EdgeOf(P, k)[2]
        IN  /\ (a.y > v.y) # (b.y > v.y)
            /\ Sgn((v.y - a.y) * (b.x - a.x) - (v.x - a.x) * (b.y - a.y))
                 = Sgn(b.y - a.y)}) % 2 = 1

\* Two polygons overlap: their boundaries meet, or one contains the other.
Overlap(P, Q) ==
    \/ \E j \in 1..Len(P), k \in 1..Len(Q) :
          SegmentsMeet(EdgeOf(P, j)[1], EdgeOf(P, j)[2],
                       EdgeOf(Q, k)[1], EdgeOf(Q, k)[2])
    \/ InsidePolygon(P[1], Q)
    \/ InsidePolygon(Q[1], P)

\* C12: with every duty cycle strictly between 0 and 1, the hole polygons of
\* period i and period i+1 do not overlap.
C12_ConsecutiveHolesDisjoint ==
    (InHoleLoop /\ ValidParams(gr.params)) =>
        \A i \in 1..(Len(gr.holes_polygons) - 1) :
            ~Overlap(gr.holes_polygons[i], gr.holes_polygons[i + 1])

\* The vertex v (half units) lies in the trapezoid (0, +-taper_width/2) ..
\* (L_total, +-grating_width/2).
InFanout(v, p) ==
    /\ v.x >= 0
    /\ v.x <= 2 * L_total_of(p)
    /\ 2 * L_total_of(p) * Abs(v.y)
         <= 2 * L_total_of(p) * p.taper_width
            + (p.grating_width - p.taper_width) * v.x

\* C13: every vertex of every hole polygon lies inside the solid fan-out
\* trapezoid before the subtraction.
C13_HolesInsideFanout ==
    (InHoleLoop /\ ValidParams(gr.params)) =>
        \A i \in 1..Len(gr.holes_polygons) :
            \A k \in 1..Len(gr.holes_polygons[i]) :
                InFanout(gr.holes_polygons[i][k], gr.params)

\* The arguments of the last call of _gen_focusing_stripe.
LastQ == q_min_of(gr.params) + gr.i

LastW == w_hole_of(duty_cycles(gr.params)[gr.i], gr.params.pitch)

LastPoint(phi, side) ==
    arc_point(LastQ, neff_of(gr.params), gr.params.theta_deg, LastW, phi,
              gr.params.lambda0, side)

\* C14: the stripe is the left (-w/2) arc over the aperture angles in
\* increasing order followed by the right (+w/2) arc over the same angles in
\* decreasing order: 2N points, and point k and point 2N+1-k (counted from
\* 1) are taken at the same angle and differ in x by exactly w.
C14_StripeIsLeftSweepThenReversedRightSweep ==
    (InHoleLoop /\ gr.i > 0) =>
        LET angles == phis(gr.params.theta_opening_deg) IN
        /\ Len(gr.raw_pts) = 2 * N
        /\ \A k \in 1..(N - 1) : angles[k] < angles[k + 1]
        /\ \A k \in 1..N :
              /\ gr.raw_pts[k] = LastPoint(angles[k], -1)
              /\ gr.raw_pts[2 * N + 1 - k] = LastPoint(angles[k], 1)
              /\ gr.raw_pts[2 * N + 1 - k].y = gr.raw_pts[k].y
              /\ gr.raw_pts[2 * N + 1 - k].x - gr.raw_pts[k].x = 2 * LastW

\* A stripe of positive width over a real aperture has been returned.
C14_Witness ==
    /\ InHoleLoop
    /\ gr.i > 0
    /\ LastW > 0
    /\ gr.raw_pts[1].y # gr.raw_pts[N].y


(***************************************************************************)
(* Routing and failure claims (build_circuit_from_dict, build_gds)         *)
(***************************************************************************)

\* build_circuit_from_dict has returned the component.
BuildReturned == pc \in {"built", "saved"}

\* The positions <<group, link>> of the declared links.
LinkPositions ==
    UNION { { <<g, l>> : l \in 1..Len(routes[g].links) } :
              g \in 1..Len(routes) }

LinkAt(pos) == routes[pos[1]].links[pos[2]]

\* Both endpoint strings parse and name created instances.
ReachesRouter(link) ==
    /\ link.src.comma
    /\ link.dst.comma
    /\ link.src.inst \in DOMAIN component_refs
    /\ link.dst.inst \in DOMAIN component_refs

\* An endpoint is malformed or names a nonexistent instance or port.
BadEndpoint(link) ==
    \/ ~ReachesRouter(link)
    \/ link.src.port \notin DOMAIN PortsOf(component_refs[link.src.inst])
    \/ link.dst.port \notin DOMAIN PortsOf(component_refs[link.dst.inst])

\* The router printed a failure for the link.
Reported(link) ==
    \E line \in log :
        line.msg = "failed to create route" /\ line.about = link

\* The router drew the link.
Completed(link) ==
    \E i \in 1..Len(rt.completed) :
        rt.completed[i].src = link.src /\ rt.completed[i].dst = link.dst

\* C15: every link with a malformed endpoint or an endpoint that names a
\* nonexistent instance or port is reported as failed; none is skipped
\* without a diagnostic.
C15_BadLinkReported ==
    BuildReturned =>
        \A pos \in LinkPositions :
            BadEndpoint(LinkAt(pos)) => Reported(LinkAt(pos))

\* C16: a failing link never stops the routing pass: routing raises
\* nothing, and once the builder has returned every link whose endpoints
\* name created instances has been handed to the router (drawn, or
\* reported as failed), whatever became of the links before it.
C16_FailedLinkDoesNotStopRouting ==
    /\ (pc = "routes" \/ BuildReturned) => raised = NoError
    /\ BuildReturned =>
          \A pos \in LinkPositions :
              ReachesRouter(LinkAt(pos)) =>
                  Completed(LinkAt(pos)) \/ Reported(LinkAt(pos))

\* The first link of the first group failed (reported, or skipped), and a
\* link of the second group was drawn after it.
C16_Witness ==
    /\ BuildReturned
    /\ Len(routes) = 2
    /\ ~Completed(LinkAt(<<1, 1>>))
    /\ \E l \in 1..Len(routes[2].links) : Completed(LinkAt(<<2, l>>))

\* The component types of the netlist that no factory provides.
UnknownTypes ==
    {instances[i].component : i \in {j \in 1..Len(instances) :
                                       ~KnownType(instances[j].component)}}

\* C17: an unknown component type is fatal: the builder raises an error
\* that names the type and returns no layout, no placement or route has
\* been applied when it fails, and build_gds writes no GDS file.
C17_UnknownTypeIsFatal ==
    UnknownTypes # {} =>
        /\ pc \in {"create", "raised", "failed"}
        /\ pc \in {"raised", "failed"} =>
              /\ raised.kind = "ValueError"
              /\ raised.names # {}
              /\ raised.names \subseteq UnknownTypes
        /\ \A n \in DOMAIN component_refs :
              component_refs[n] = NewRef(component_refs[n].component)
        /\ rt.completed = << >>
        /\ gds = "none"
    /\ LaterIdle

\* build_gds has returned after the error, for a netlist that declares
\* placements and routes.
C17_Witness ==
    /\ pc = "failed"
    /\ raised.kind = "ValueError"
    /\ placements # << >>
    /\ routes # << >>
    /\ gds = "none"
    /\ LaterIdle

\* The endpoints (instance, port) of a drawn route.
EndsOf(route) ==
    { [inst |-> route.src.inst, port |-> route.src.port],
      [inst |-> route.dst.inst, port |-> route.dst.port] }

\* C18: after routing, each (instance, port) is the endpoint of at most one
\* completed link.
C18_PortConsumedOnce ==
    BuildReturned =>
        \A i, j \in 1..Len(rt.completed) :
            i < j => EndsOf(rt.completed[i]) \cap EndsOf(rt.completed[j]) = {}

\* The ports that are the endpoint of no declared link.
UnconnectedPorts ==
    { e \in UNION { { [inst |-> n, port |-> q] :
                        q \in DOMAIN PortsOf(component_refs[n]) } :
                      n \in DOMAIN component_refs } :
        \A pos \in LinkPositions :
            /\ ~(/\ LinkAt(pos).src.comma
                 /\ LinkAt(pos).src.inst = e.inst
                 /\ LinkAt(pos).src.port = e.port)
            /\ ~(/\ LinkAt(pos).dst.comma
                 /\ LinkAt(pos).dst.inst = e.inst
                 /\ LinkAt(pos).dst.port = e.port) }

\* C19: every port that is the endpoint of no link is reported to the
\* caller as a warning; none is missing from the report.
C19_UnconnectedPortsReported ==
    BuildReturned =>
        \A e \in UnconnectedPorts :
            \E line \in log :
                line.level = "WARNING" /\ line.msg = "unconnected port"


(***************************************************************************)
(* _get_component_info (src/gui_app_beta_stable20260115.py)                *)
(*                                                                         *)
(* A Python string is the sequence of its pieces, so that the cache key    *)
(* f"{comp_type}_{str(settings)}" is a concatenation.  Sizes and port      *)
(* offsets are integers in units of 0.1 um.                                *)
(***************************************************************************)

\* One item of a settings dict: its key, the repr of its value, and the
\* value as a length (numeric is FALSE for a value that is no number).
Setting(k, r, isNum, v) == [key |-> k, repr |-> r, numeric |-> isNum, value |-> v]

\* The settings dicts of an instance, items in insertion order.
SettingsChoices ==
    { << >>,
      << Setting("radius", "100", TRUE, 1000) >>,
      << Setting("radius", "'big'", FALSE, 0) >>,
      << Setting("rotation", "90", TRUE, 90) >> }

\* The component types of an instance: a factory of the pdk, a type only
\* the fallback tables know, and the default of details.get('component').
TypeChoices ==
    { <<"ring", "_", "resonator">>, <<"mzi">>, <<"Unknown">> }

\* str(settings) of a dict: "{'k': v, 'k': v}".
RECURSIVE items_str(_)
items_str(settings) ==
    IF settings = << >> THEN << >>
    ELSE <<"'", settings[1].key, "'", ": ", settings[1].repr>>
         \o (IF Len(settings) > 1 THEN <<", ">> ELSE << >>)
         \o items_str(Tail(settings))

str(settings) == <<"{">> \o items_str(settings) \o <<"}">>

\* Line 257: cache_key = f"{comp_type}_{str(settings)}".
cache_key_type_only(comp_type, settings) == comp_type \o <<"_">>

cache_key(comp_type, settings) == comp_type \o <<"_">> \o str(settings)

\* Lines 48-59.
FALLBACK_SIZES ==
    [t \in { <<"ring", "_", "resonator">>, <<"mzi">> } |->
       IF t = <<"mzi">> THEN <<10000, 800>> ELSE <<4000, 4000>>]

DEFAULT_SIZE == <<500, 500>>

NoPorts == [n \in {} |-> <<0, 0>>]

\* Lines 62-65.
FALLBACK_PORTS ==
    [t \in { <<"ring", "_", "resonator">>, <<"mzi">> } |->
       IF t = <<"mzi">>
       THEN [o1 |-> <<-5000, 0>>, o2 |-> <<5000, 0>>]
       ELSE [o1 |-> <<0, -2050>>, o2 |-> <<0, 2050>>]]

\* hasattr(pdk, comp_type).
pdk_has(comp_type) == comp_type = <<"ring", "_", "resonator">>

\* Line 269: the settings without 'rotation'.
clean_settings(settings) == SelectSeq(settings, LAMBDA it : it.key # "rotation")

\* pdk.ring_resonator(**clean_settings) raises when radius is no number.
pdk_raises(settings) ==
    \E i \in 1..Len(clean_settings(settings)) :
        ~clean_settings(settings)[i].numeric

\* pdk.py lines 385-467 and gui lines 273-294: size and ports of the ring
\* with the default widths (1.2) and gap (1.0): bus_length = 2*radius + 100,
\* bus_offset = radius + 2.2.
ring_info(settings) ==
    LET given == {i \in 1..Len(settings) : settings[i].key = "radius"}
        ring_radius == IF given = {} THEN 2000
                       ELSE settings[CHOOSE i \in given : TRUE].value
        bus_length == 2 * ring_radius + 1000
        bus_offset == ring_radius + 22
    IN  [w |-> bus_length, h |-> 2 * bus_offset + 12,
         ports |-> [o1 |-> <<-(bus_length \div 2), -bus_offset>>,
                    o2 |-> <<bus_length \div 2, -bus_offset>>,
                    o3 |-> <<bus_length \div 2, bus_offset>>,
                    o4 |-> <<-(bus_length \div 2), bus_offset>>]]

\* Lines 261-304: the synthesis of an uncached entry.
component_info(PDK_AVAILABLE, comp_type, settings) ==
    LET fallback_size == IF comp_type \in DOMAIN FALLBACK_SIZES
                         THEN FALLBACK_SIZES[comp_type] ELSE DEFAULT_SIZE
    IN  IF PDK_AVAILABLE /\ pdk_has(comp_type)
        THEN IF pdk_raises(settings)
             THEN [w |-> fallback_size[1], h |-> fallback_size[2],
                   ports |-> NoPorts]
             ELSE ring_info(clean_settings(settings))
        ELSE [w |-> fallback_size[1], h |-> fallback_size[2],
              ports |-> IF comp_type \in DOMAIN FALLBACK_PORTS
                        THEN FALLBACK_PORTS[comp_type] ELSE NoPorts]

NoCall == [made |-> FALSE, comp_type |-> << >>, settings |-> << >>,
           info |-> [w |-> 0, h |-> 0, ports |-> NoPorts]]

\* Lines 251-307: one call of _get_component_info.
GetComponentInfo ==
    /\ gui.pc = "ready"
    /\ \E comp_type \in TypeChoices, settings \in SettingsChoices :
         LET key == cache_key(comp_type, settings) IN
         IF key \in DOMAIN gui.comp_cache
         THEN gui' = [gui EXCEPT !.last = [made |-> TRUE,
                                           comp_type |-> comp_type,
                                           settings |-> settings,
                                           info |-> gui.comp_cache[key]]]
         ELSE LET info == component_info(gui.PDK_AVAILABLE, comp_type,
                                         settings)
              IN  gui' = [gui EXCEPT
                            !.comp_cache =
                               [k \in DOMAIN gui.comp_cache \cup {key} |->
                                  IF k = key THEN info ELSE gui.comp_cache[k]],
                            !.last = [made |-> TRUE, comp_type |-> comp_type,
                                      settings |-> settings, info |-> info]]
    /\ UNCHANGED <<buildVars, sb, gr, cell, grid, tr, pv, app>>

\* Lines 39-44 and 93: the import decides PDK_AVAILABLE, __init__ empties
\* the cache.
InitCache ==
    /\ instances = << >>
    /\ placements = << >>
    /\ component_refs = << >>
    /\ pc = "idle"
    /\ idx = 1
    /\ log = {}
    /\ raised = NoError
    /\ routes = << >>
    /\ rt = NoRouting
    /\ gds = "none"
    /\ LaterIdle
    /\ sb = NoSBend
    /\ gr = NoGrating
    /\ gui \in [pc : {"ready"}, PDK_AVAILABLE : BOOLEAN,
                comp_cache : { << >> }, last : {NoCall}]

NextCache == GetComponentInfo

SpecCache == InitCache /\ [][NextCache]_vars

(***************************************************************************)
(* Cache claim                                                             *)
(***************************************************************************)

\* The (type, settings) pairs a call can ask for.
InfoPairs == TypeChoices \X SettingsChoices

\* C20: after any sequence of calls, the answer of a call equals the
\* uncached synthesis of its type and settings, every cache entry holds
\* the synthesis of the pair it was made for, and two different pairs
\* never share an entry.
C20_CacheIsTransparent ==
    gui.pc = "ready" =>
        /\ gui.last.made =>
              gui.last.info = component_info(gui.PDK_AVAILABLE,
                                             gui.last.comp_type,
                                             gui.last.settings)
        /\ \A p \in InfoPairs :
              cache_key(p[1], p[2]) \in DOMAIN gui.comp_cache =>
                  gui.comp_cache[cache_key(p[1], p[2])]
                    = component_info(gui.PDK_AVAILABLE, p[1], p[2])
        /\ \A p, q \in InfoPairs :
              p # q => cache_key(p[1], p[2]) # cache_key(q[1], q[2])

\* A call was answered from the cache while entries of the same type with
\* other settings were present.
C20_Witness ==
    /\ gui.pc = "ready"
    /\ gui.last.made
    /\ gui.last.settings # << >>
    /\ Cardinality(DOMAIN gui.comp_cache) = Cardinality(InfoPairs)


(***************************************************************************)
(* Concurrent calls of _get_component_info on one comp_cache               *)
(*                                                                         *)
(* Each evaluation is a thread that runs the statements of the method in   *)
(* order; a step is a statement group that touches the shared dict at most *)
(* once (the membership test and read of lines 258-259, the insert of line *)
(* 306).  The local dict `info` is filled in two steps, size then ports.   *)
(***************************************************************************)

Threads == {"t1", "t2"}

\* The (type, settings) pairs the concurrent evaluations ask for.
SharedTypes == { <<"ring", "_", "resonator">>, <<"mzi">> }

SharedSettings ==
    { << >>,
      << Setting("radius", "100", TRUE, 1000) >>,
      << Setting("radius", "'big'", FALSE, 0) >> }

\* Lines 261-265: the fresh local dict.
fresh_info == [w |-> DEFAULT_SIZE[1], h |-> DEFAULT_SIZE[2], ports |-> NoPorts]

\* Lines 273-289, 298-302: `info` once w and h are assigned and the ports
\* are still to be filled.
sized_info(PDK_AVAILABLE, comp_type, settings) ==
    [component_info(PDK_AVAILABLE, comp_type, settings)
       EXCEPT !.ports = NoPorts]

IdleCall == [pc |-> "idle", comp_type |-> << >>, settings |-> << >>,
             info |-> fresh_info, result |-> fresh_info]

\* Line 251: a thread enters the method.
EnterCall(t) ==
    /\ gui.pc = "shared"
    /\ gui.calls[t].pc \in {"idle", "returned"}
    /\ \E comp_type \in SharedTypes, settings \in SharedSettings :
         gui' = [gui EXCEPT !.calls[t] =
                   [pc |-> "check", comp_type |-> comp_type,
                    settings |-> settings, info |-> fresh_info,
                    result |-> fresh_info]]
    /\ UNCHANGED <<buildVars, sb, gr, cell, grid, tr, pv, app>>

\* Lines 257-265: a hit returns the cached dict, a miss makes the local
\* dict.
CheckCache(t) ==
    /\ gui.pc = "shared"
    /\ gui.calls[t].pc = "check"
    /\ LET key == cache_key(gui.calls[t].comp_type, gui.calls[t].settings) IN
       IF key \in DOMAIN gui.comp_cache
       THEN gui' = [gui EXCEPT !.calls[t].pc = "returned",
                               !.calls[t].result = gui.comp_cache[key]]
       ELSE gui' = [gui EXCEPT !.calls[t].pc = "size"]
    /\ UNCHANGED <<buildVars, sb, gr, cell, grid, tr, pv, app>>

\* Lines 267-289, 296-302: w and h.
FillSize(t) ==
    /\ gui.pc = "shared"
    /\ gui.calls[t].pc = "size"
    /\ gui' = [gui EXCEPT
                 !.calls[t].pc = "ports",
                 !.calls[t].info = sized_info(gui.PDK_AVAILABLE,
                                              gui.calls[t].comp_type,
                                              gui.calls[t].settings)]
    /\ UNCHANGED <<buildVars, sb, gr, cell, grid, tr, pv, app>>

\* Lines 291-294, 303-304: the ports.
FillPorts(t) ==
    /\ gui.pc = "shared"
    /\ gui.calls[t].pc = "ports"
    /\ gui' = [gui EXCEPT
                 !.calls[t].pc = "insert",
                 !.calls[t].info = component_info(gui.PDK_AVAILABLE,
                                                  gui.calls[t].comp_type,
                                                  gui.calls[t].settings)]
    /\ UNCHANGED <<buildVars, sb, gr, cell, grid, tr, pv, app>>

\* Line 306 is reached when the local dict is complete.
at_insert_early(call) == call.pc \in {"ports", "insert"}

at_insert(call) == call.pc = "insert"

\* Lines 306-307: the insert and the return.
InsertEntry(t) ==
    /\ gui.pc = "shared"
    /\ at_insert(gui.calls[t])
    /\ LET key == cache_key(gui.calls[t].comp_type, gui.calls[t].settings) IN
       gui' = [gui EXCEPT
                 !.comp_cache =
                    [k \in DOMAIN gui.comp_cache \cup {key} |->
                       IF k = key THEN gui.calls[t].info
                       ELSE gui.comp_cache[k]],
                 !.calls[t].pc = "returned",
                 !.calls[t].result = gui.calls[t].info]
    /\ UNCHANGED <<buildVars, sb, gr, cell, grid, tr, pv, app>>

InitShared ==
    /\ instances = << >>
    /\ placements = << >>
    /\ component_refs = << >>
    /\ pc = "idle"
    /\ idx = 1
    /\ log = {}
    /\ raised = NoError
    /\ routes = << >>
    /\ rt = NoRouting
    /\ gds = "none"
    /\ LaterIdle
    /\ sb = NoSBend
    /\ gr = NoGrating
    /\ gui \in [pc : {"shared"}, PDK_AVAILABLE : BOOLEAN,
                comp_cache : { << >> },
                calls : { [t \in Threads |-> IdleCall] }]

NextShared ==
    \E t \in Threads :
        \/ EnterCall(t)
        \/ CheckCache(t)
        \/ FillSize(t)
        \/ FillPorts(t)
        \/ InsertEntry(t)

SpecShared == InitShared /\ [][NextShared]_vars

\* C21: under every interleaving of the steps of concurrent calls, every
\* call that has returned holds exactly the synthesis of its (type,
\* settings), and every entry of the shared cache is a complete synthesis
\* (no call can observe a partially filled one).
C21_ConcurrentCallsSeeSynthesis ==
    gui.pc = "shared" =>
        /\ \A t \in Threads :
              gui.calls[t].pc = "returned" =>
                  gui.calls[t].result
                    = component_info(gui.PDK_AVAILABLE,
                                     gui.calls[t].comp_type,
                                     gui.calls[t].settings)
        /\ \A ty \in SharedTypes, st \in SharedSettings :
              cache_key(ty, st) \in DOMAIN gui.comp_cache =>
                  gui.comp_cache[cache_key(ty, st)]
                    = component_info(gui.PDK_AVAILABLE, ty, st)

\* One thread was answered from the cache while the other, which missed on
\* the same key, is still filling its local dict.
C21_Witness ==
    /\ gui.pc = "shared"
    /\ gui.calls["t1"].pc = "returned"
    /\ gui.calls["t2"].pc = "ports"
    /\ gui.calls["t1"].comp_type = gui.calls["t2"].comp_type
    /\ gui.calls["t1"].settings = gui.calls["t2"].settings
    /\ gui.calls["t1"].result.ports # NoPorts

-----------------------------------------------------------------------------
\* Four-port cells of the pdk.  Positions are in half units of length (every
\* source length is doubled), so that the centre of a straight of any
\* integer length is on the lattice.  A port is [x, y, orientation].

MaxRadius == 3
MaxWidth == 2
MaxGap == 2

CellPort(x, y, o) == [x |-> x, y |-> y, orientation |-> o]

\* c.add_port(name, ...)
add_port(ports, name, port) == (name :> port) @@ ports

\* gf.components.straight(length) placed with .x = cx, .y = cy (cx, cy, and
\* the result in half units): o1 faces West, o2 faces East.
straight_centred(length, cx, cy) ==
    [o1 |-> CellPort(cx - length, cy, 180), o2 |-> CellPort(cx + length, cy, 0)]

bus_offset_of(ring_radius, couplingGap, wgWidth, ringWgWidth) ==
    2 * ring_radius + ringWgWidth + 2 * couplingGap + wgWidth

bus_length_of(ring_radius) == 2 * ring_radius + 100

RingParams ==
    [radius : 1..MaxRadius, isDoubleSided : BOOLEAN,
     couplingGap : 0..MaxGap, wgWidth : 1..MaxWidth,
     ringWgWidth : 1..MaxWidth]

\* The else branch of ring_resonator: the two ports that have no geometry.
phantom_ports_none(ports, bus_length, bus_offset) == ports

phantom_ports(ports, bus_length, bus_offset) ==
    add_port(add_port(ports, "o4", CellPort(-bus_length, bus_offset, 180)),
             "o3", CellPort(bus_length, bus_offset, 0))

\* _create_precise_euler_sbend as the assemblies use it: a reference whose
\* o2 is sbend_len East of o1 and delta_y above it; mirror_y before the
\* connect turns the rise into a fall.
sbend_o2_from_o1(o1, sbend_len, delta_y, mirrored) ==
    CellPort(o1.x + 2 * sbend_len,
         o1.y + (IF mirrored THEN -2 * delta_y ELSE 2 * delta_y), 0)

sbend_o1_from_o2(o2, sbend_len, delta_y, mirrored) ==
    CellPort(o2.x - 2 * sbend_len,
         o2.y - (IF mirrored THEN -2 * delta_y ELSE 2 * delta_y), 180)

RacetrackParams ==
    [straightLength : 4..5, rtBendRadius : 1..MaxRadius,
     couplingGap : 0..MaxGap, couplingLength : 2..3,
     wgSpacing : 1..2, wgWidth : 1..MaxWidth, sbend_len : 1..2]

MziParams ==
    [wg_width : 1..MaxWidth, coupler_length : 2..3,
     coupler_gap : 0..MaxGap, mzi_arm_length : 3..4,
     spacing_over_pitch : 1..2, sbend_len : 1..2]

\* gf.components.coupler connected by its o1 (bottom left) to an East
\* facing port: o2 top left, o3 top right, o4 bottom right; the port
\* pitch is the library's dy = 4, the fan-in on each side its dx = 10.
coupler_at(o1, coupler_length) ==
    [o1 |-> CellPort(o1.x, o1.y, 180),
     o2 |-> CellPort(o1.x, o1.y + 8, 180),
     o3 |-> CellPort(o1.x + 2 * (coupler_length + 20), o1.y + 8, 0),
     o4 |-> CellPort(o1.x + 2 * (coupler_length + 20), o1.y, 0)]

\* A straight connected by its o1 to an East facing port.
straight_from(o1, length) ==
    [o1 |-> CellPort(o1.x, o1.y, 180), o2 |-> CellPort(o1.x + 2 * length, o1.y, 0)]

NoPortsYet == [n \in {} |-> CellPort(0, 0, 0)]

\* ring_resonator, up to the bottom bus and its two ports.
RingBottomBus ==
    /\ cell.pc = "start" /\ cell.kind = "ring_resonator"
    /\ LET q == cell.params
           bus_offset == bus_offset_of(q.radius, q.couplingGap, q.wgWidth,
                                       q.ringWgWidth)
           bus_bot == straight_centred(bus_length_of(q.radius), 0,
                                       -bus_offset)
       IN  cell' = [cell EXCEPT
                      !.pc = "top",
                      !.refs = {"ring", "bus_bot"},
                      !.ports = add_port(add_port(cell.ports, "o1",
                                                  bus_bot.o1),
                                         "o2", bus_bot.o2)]
    /\ UNCHANGED <<buildVars, sb, gr, gui, grid, tr, pv, app>>

\* ring_resonator, isDoubleSided: the top bus and its two ports.
RingTopBus ==
    /\ cell.pc = "top" /\ cell.params.isDoubleSided
    /\ LET q == cell.params
           bus_offset == bus_offset_of(q.radius, q.couplingGap, q.wgWidth,
                                       q.ringWgWidth)
           bus_top == straight_centred(bus_length_of(q.radius), 0,
                                       bus_offset)
       IN  cell' = [cell EXCEPT
                      !.pc = "done",
                      !.refs = cell.refs \cup {"bus_top"},
                      !.ports = add_port(add_port(cell.ports, "o3",
                                                  bus_top.o2),
                                         "o4", bus_top.o1)]
    /\ UNCHANGED <<buildVars, sb, gr, gui, grid, tr, pv, app>>

\* ring_resonator, single sided: phantom ports in place of the top bus.
RingPhantomPorts ==
    /\ cell.pc = "top" /\ ~cell.params.isDoubleSided
    /\ LET q == cell.params
           bus_offset == bus_offset_of(q.radius, q.couplingGap, q.wgWidth,
                                       q.ringWgWidth)
       IN  cell' = [cell EXCEPT
                      !.pc = "done",
                      !.ports = phantom_ports(cell.ports,
                                              bus_length_of(q.radius),
                                              bus_offset)]
    /\ UNCHANGED <<buildVars, sb, gr, gui, grid, tr, pv, app>>

\* racetrack_resonator: the loop (top straight centred on the origin, the
\* bottom straight one bend diameter below it) and the two coupling
\* straights, right aligned with the loop straights.
RacetrackLoop ==
    /\ cell.pc = "start" /\ cell.kind = "racetrack_resonator"
    /\ LET q == cell.params
           rt_top == straight_centred(q.straightLength, 0, 0)
           drop == 4 * q.rtBendRadius
           pitch == q.wgWidth + q.couplingGap
           xmax == rt_top.o2.x
           left == xmax - 2 * q.couplingLength
       IN  cell' = [cell EXCEPT
                      !.pc = "bus",
                      !.refs = {"rt_top", "bend_r", "rt_bot", "bend_l",
                                "top_c", "bot_c"},
                      !.top_c = [o1 |-> CellPort(left, 2 * pitch, 180),
                                 o2 |-> CellPort(xmax, 2 * pitch, 0)],
                      !.bot_c = [o1 |-> CellPort(left, -drop - 2 * pitch, 180),
                                 o2 |-> CellPort(xmax, -drop - 2 * pitch, 0)]]
    /\ UNCHANGED <<buildVars, sb, gr, gui, grid, tr, pv, app>>

\* racetrack_resonator: the four fan-in/out S-bends and the ports.
RacetrackBuses ==
    /\ cell.pc = "bus"
    /\ LET q == cell.params
           t_in_o1 == sbend_o1_from_o2(cell.top_c.o1, q.sbend_len,
                                       q.wgSpacing, TRUE)
           t_out_o2 == sbend_o2_from_o1(cell.top_c.o2, q.sbend_len,
                                        q.wgSpacing, FALSE)
           b_in_o1 == sbend_o1_from_o2(cell.bot_c.o1, q.sbend_len,
                                       q.wgSpacing, FALSE)
           b_out_o2 == sbend_o2_from_o1(cell.bot_c.o2, q.sbend_len,
                                        q.wgSpacing, TRUE)
       IN  cell' = [cell EXCEPT
                      !.pc = "done",
                      !.refs = cell.refs \cup {"t_in", "t_out", "b_in",
                                               "b_out"},
                      !.ports = add_port(add_port(add_port(add_port(
                                    cell.ports, "o1", t_in_o1),
                                    "o2", t_out_o2), "o3", b_in_o1),
                                    "o4", b_out_o2)]
    /\ UNCHANGED <<buildVars, sb, gr, gui, grid, tr, pv, app>>

\* mzi_no_heater: the assembly from left to right and the ports.
MziAssemble ==
    /\ cell.pc = "start" /\ cell.kind = "mzi_no_heater"
    /\ LET q == cell.params
           arm_spacing == q.coupler_gap + q.wg_width + q.spacing_over_pitch
           delta_y == arm_spacing - (q.coupler_gap + q.wg_width)
           in_bot == straight_centred(q.sbend_len, 0, 0)
           cp1 == coupler_at(in_bot.o2, q.coupler_length)
           in_top_o1 == sbend_o1_from_o2(cp1.o2, q.sbend_len, delta_y, TRUE)
           bot_mzi_len == 2 * q.sbend_len + q.mzi_arm_length
           arm_bot == straight_from(cp1.o4, bot_mzi_len)
           cp2 == coupler_at(arm_bot.o2, q.coupler_length)
           out_bot == straight_from(cp2.o4, q.sbend_len)
           out_top_o2 == sbend_o2_from_o1(cp2.o3, q.sbend_len, delta_y,
                                          FALSE)
       IN  cell' = [cell EXCEPT
                      !.pc = "done",
                      !.refs = {"in_bot", "cp1", "in_top", "bend_expand",
                                "arm_top", "bend_contract", "arm_bot",
                                "cp2", "out_bot", "out_top"},
                      !.ports = add_port(add_port(add_port(add_port(
                                    cell.ports, "o1", in_bot.o1),
                                    "o2", in_top_o1), "o3", out_bot.o2),
                                    "o4", out_top_o2)]
    /\ UNCHANGED <<buildVars, sb, gr, gui, grid, tr, pv, app>>

NoBus == [o1 |-> CellPort(0, 0, 180), o2 |-> CellPort(0, 0, 0)]

CellCall(kind, params) ==
    [pc |-> "start", kind |-> kind, params |-> params, refs |-> {},
     ports |-> NoPortsYet, top_c |-> NoBus, bot_c |-> NoBus]

InitCells ==
    /\ instances = << >> /\ placements = << >> /\ component_refs = << >>
    /\ pc = "idle" /\ idx = 1 /\ log = << >> /\ raised = NoError
    /\ sb = NoSBend /\ routes = << >> /\ rt = NoRouting /\ gds = "none"
    /\ gr = NoGrating /\ gui = NoGui
    /\ grid = [pc |-> "idle"] /\ tr = [pc |-> "idle"]
    /\ pv = [pc |-> "idle"] /\ app = [pc |-> "idle"]
    /\ cell \in {CellCall("ring_resonator", q) : q \in RingParams}
            \cup {CellCall("racetrack_resonator", q) :
                     q \in RacetrackParams}
            \cup {CellCall("mzi_no_heater", q) : q \in MziParams}

NextCells ==
    \/ RingBottomBus
    \/ RingTopBus
    \/ RingPhantomPorts
    \/ RacetrackLoop
    \/ RacetrackBuses
    \/ MziAssemble

SpecCells == InitCells /\ [][NextCells]_vars

FourPorts == {"o1", "o2", "o3", "o4"}

\* C22: a finished ring_resonator exposes exactly the ports o1, o2, o3 and
\* o4 for every parameter setting; when isDoubleSided is false the top bus
\* is absent and o3 (East) and o4 (West) are ports without geometry at the
\* height of the absent bus.
C22_RingAlwaysHasFourPorts ==
    (cell.pc = "done" /\ cell.kind = "ring_resonator") =>
        /\ DOMAIN cell.ports = FourPorts
        /\ ~cell.params.isDoubleSided =>
              /\ "bus_top" \notin cell.refs
              /\ cell.ports["o3"].y = -cell.ports["o2"].y
              /\ cell.ports["o4"].y = -cell.ports["o1"].y
              /\ cell.ports["o3"].x = cell.ports["o2"].x
              /\ cell.ports["o4"].x = cell.ports["o1"].x

\* A single sided ring has been synthesised.
C22_Witness ==
    /\ cell.pc = "done" /\ cell.kind = "ring_resonator"
    /\ ~cell.params.isDoubleSided
    /\ "o3" \in DOMAIN cell.ports

\* C23: every finished four-port cell has o1 West-Bottom, o2 West-Top,
\* o3 East-Bottom and o4 East-Top: o1 and o2 lie at smaller x than o3 and
\* o4, o1 lies below o2 and o3 lies below o4.
C23_PortMappingConvention ==
    (cell.pc = "done" /\ DOMAIN cell.ports = FourPorts) =>
        /\ \A w \in {"o1", "o2"}, e \in {"o3", "o4"} :
              cell.ports[w].x < cell.ports[e].x
        /\ cell.ports["o1"].y < cell.ports["o2"].y
        /\ cell.ports["o3"].y < cell.ports["o4"].y

-----------------------------------------------------------------------------
\* GridMapper.  A grid reference is a sequence of characters; ord, upper,
\* int and split are computed on the characters as Python computes them.

MaxRefLen == 3

Chars == {"A", "B", "C", "a", "0", "1", "2", "3", "-", "_", "N", "E"}

Digits == {"0", "1", "2", "3"}

ord(c) ==
    CASE c = "A" -> 65 [] c = "B" -> 66 [] c = "C" -> 67 [] c = "E" -> 69
      [] c = "N" -> 78 [] c = "a" -> 97 [] c = "0" -> 48 [] c = "1" -> 49
      [] c = "2" -> 50 [] c = "3" -> 51 [] c = "-" -> 45 [] c = "_" -> 95

upper(c) == IF c = "a" THEN "A" ELSE c

RECURSIVE digits_value(_)
digits_value(s) ==
    IF s = << >> THEN 0
    ELSE 10 * digits_value(SubSeq(s, 1, Len(s) - 1)) + (ord(s[Len(s)]) - 48)

\* int(s) accepts a non-empty run of digits with an optional sign.
int_ok(s) ==
    LET d == IF s # << >> /\ s[1] = "-" THEN Tail(s) ELSE s
    IN  d # << >> /\ \A i \in 1..Len(d) : d[i] \in Digits

int(s) ==
    IF s[1] = "-" THEN -digits_value(Tail(s)) ELSE digits_value(s)

\* grid_str.split('_'): parts[0] and, when there is one, parts[1].
split_base(s) ==
    LET us == {i \in 1..Len(s) : s[i] = "_"}
    IN  IF us = {} THEN s
        ELSE SubSeq(s, 1, (CHOOSE i \in us : \A j \in us : i <= j) - 1)

split_suffix(s) ==
    LET us == {i \in 1..Len(s) : s[i] = "_"}
        first == CHOOSE i \in us : \A j \in us : i <= j
        later == {i \in us : i > first}
    IN  IF us = {} THEN <<"C">>
        ELSE IF later = {} THEN SubSeq(s, first + 1, Len(s))
        ELSE SubSeq(s, first + 1,
                    (CHOOSE i \in later : \A j \in later : i <= j) - 1)

\* nudge_map.get(suffix, (0, 0)) in quarters of a cell.
nudge(suffix) ==
    CASE suffix = <<"N">> -> <<0, -1>>
      [] suffix = <<"E">> -> <<1, 0>>
      [] suffix = <<"N", "E">> -> <<1, -1>>
      [] OTHER -> <<0, 0>>

\* _parse_grid_ref: the validation of the class.
_parse_grid_ref(rows, cols, grid_ref) ==
    IF grid_ref = << >> THEN [ok |-> FALSE, error |-> "ValueError"]
    ELSE IF ~int_ok(Tail(grid_ref))
    THEN [ok |-> FALSE, error |-> "ValueError"]
    ELSE IF ord(upper(grid_ref[1])) - 65 \notin 0..(rows - 1)
    THEN [ok |-> FALSE, error |-> "ValueError"]
    ELSE IF int(Tail(grid_ref)) < 1 \/ int(Tail(grid_ref)) > cols
    THEN [ok |-> FALSE, error |-> "ValueError"]
    ELSE [ok |-> TRUE, error |-> "none"]

\* int(center + d) for the cell (row_idx, col_idx): centre of the cell plus
\* a quarter cell per unit of nudge, truncated toward zero.
pixel(size, count, index, quarters) ==
    Quot(size * (4 * index + 2 + quarters), 4 * count)

RefsUpTo(n) == UNION {[1..k -> Chars] : k \in 0..n}

GridCall(rows, cols, size, grid_str) ==
    [pc |-> "call", rows |-> rows, cols |-> cols, image_width |-> size,
     image_height |-> size, grid_str |-> grid_str, base_cell |-> << >>,
     suffix |-> << >>, result |-> <<0, 0>>, error |-> "none"]

\* get_center_of_cell, step 1: base cell and suffix.
SplitGridStr ==
    /\ grid.pc = "call"
    /\ grid' = [grid EXCEPT !.pc = "split",
                            !.base_cell = split_base(grid.grid_str),
                            !.suffix = split_suffix(grid.grid_str)]
    /\ UNCHANGED <<buildVars, sb, gr, gui, cell, tr, pv, app>>

\* get_center_of_cell, steps 2 and 3, when base_cell[0] or int() raises.
CellCentreRaises ==
    /\ grid.pc = "split"
    /\ IF grid.base_cell = << >> THEN TRUE
       ELSE ~int_ok(Tail(grid.base_cell))
    /\ grid' = [grid EXCEPT
                  !.pc = "raised",
                  !.error = IF grid.base_cell = << >> THEN "IndexError"
                            ELSE "ValueError"]
    /\ UNCHANGED <<buildVars, sb, gr, gui, cell, tr, pv, app>>

\* get_center_of_cell, steps 2 and 3: the pixel of the cell.
CellCentreReturns ==
    /\ grid.pc = "split"
    /\ IF grid.base_cell = << >> THEN FALSE
       ELSE int_ok(Tail(grid.base_cell))
    /\ LET row_idx == ord(upper(grid.base_cell[1])) - 65
           col_idx == int(Tail(grid.base_cell)) - 1
           d == nudge(grid.suffix)
       IN  grid' = [grid EXCEPT
                      !.pc = "returned",
                      !.result = <<pixel(grid.image_width, grid.cols,
                                         col_idx, d[1]),
                                   pixel(grid.image_height, grid.rows,
                                         row_idx, d[2])>>]
    /\ UNCHANGED <<buildVars, sb, gr, gui, cell, tr, pv, app>>

InitGridMapper ==
    /\ instances = << >> /\ placements = << >> /\ component_refs = << >>
    /\ pc = "idle" /\ idx = 1 /\ log = << >> /\ raised = NoError
    /\ sb = NoSBend /\ routes = << >> /\ rt = NoRouting /\ gds = "none"
    /\ gr = NoGrating /\ gui = NoGui
    /\ cell = [pc |-> "idle"] /\ tr = [pc |-> "idle"]
    /\ pv = [pc |-> "idle"] /\ app = [pc |-> "idle"]
    /\ grid \in {GridCall(rows, cols, 100, g) :
                    rows \in 2..3, cols \in 2..3,
                    g \in RefsUpTo(MaxRefLen)}

NextGridMapper ==
    \/ SplitGridStr
    \/ CellCentreRaises
    \/ CellCentreReturns

SpecGridMapper == InitGridMapper /\ [][NextGridMapper]_vars

\* C24: get_center_of_cell returns a pixel only for a reference that
\* _parse_grid_ref accepts (row letter among the grid's rows, column in
\* 1..cols, well formed), and raises ValueError for every other one.
C24_OutOfGridRaisesValueError ==
    /\ grid.pc = "returned" =>
           _parse_grid_ref(grid.rows, grid.cols, grid.base_cell).ok
    /\ grid.pc = "raised" => grid.error = "ValueError"

-----------------------------------------------------------------------------
\* parse_ai_response.  A placement entry is a dict over the keys to, port,
\* dx, dy, x, y and rotation; a key that is not in the dict holds Absent.
\* A value is a string (a sequence of characters) or a number.

Absent == [t |-> "absent"]
Str(v) == [t |-> "str", v |-> v]
Num(v) == [t |-> "num", v |-> v]

\* A placement that is not a dict (instance_name: some string).
NotADict == [t |-> "str", v |-> <<"B", "2">>]

\* The mapper of the run: a square image on a grid of GridRows x GridCols.
GridRows == 2
GridCols == 2

\* mapper.get_center_of_cell(grid_str)
get_center_of_cell(grid_str) ==
    LET base_cell == split_base(grid_str)
        d == nudge(split_suffix(grid_str))
    IN  IF base_cell = << >> THEN [raises |-> "IndexError", result |-> <<0, 0>>]
        ELSE IF ~int_ok(Tail(base_cell))
        THEN [raises |-> "ValueError", result |-> <<0, 0>>]
        ELSE [raises |-> "none",
              result |-> <<pixel(100, GridCols, int(Tail(base_cell)) - 1,
                                 d[1]),
                           pixel(100, GridRows,
                                 ord(upper(base_cell[1])) - 65, d[2])>>]

\* 'to' in placement_data or 'port' in placement_data
is_relative_to_only(e) == e.to # Absent

is_relative(e) == e.to # Absent \/ e.port # Absent

\* float(s) on the strings the netlists here carry (digits with a sign).
float_ok(s) == int_ok(s)

\* The dx / dy statements of the relative branch.
to_float(v) ==
    IF v.t = "str" THEN (IF float_ok(v.v) THEN Num(int(v.v)) ELSE v) ELSE v

\* The x / y statements of the absolute branch; coord is 1 for x, 2 for y.
to_pixel(v, coord) ==
    IF v.t = "str"
    THEN (IF get_center_of_cell(v.v).raises = "none"
          THEN Num(get_center_of_cell(v.v).result[coord]) ELSE v)
    ELSE v

\* An uncaught exception of the absolute branch.
pixel_raises(v) ==
    IF v.t = "str" THEN get_center_of_cell(v.v).raises = "IndexError"
    ELSE FALSE

\* One iteration of the loop over placements.items().
convert_entry(e) ==
    IF e.t # "dict" THEN e
    ELSE IF is_relative(e)
    THEN [e EXCEPT !.dx = to_float(e.dx), !.dy = to_float(e.dy)]
    ELSE [e EXCEPT !.x = to_pixel(e.x, 1), !.y = to_pixel(e.y, 2)]

entry_raises(e) ==
    IF e.t # "dict" THEN FALSE
    ELSE IF is_relative(e) THEN FALSE
    ELSE pixel_raises(e.x) \/ pixel_raises(e.y)

EntryChoices ==
    [t : {"dict"},
     to : {Absent, Str(<<"B", "2">>)},
     port : {Absent, Str(<<"E">>)},
     dx : {Absent, Num(5), Str(<<"1", "0">>), Str(<<"a">>)},
     dy : {Absent, Str(<<"-", "2">>)},
     x : {Absent, Num(7), Str(<<"A", "1">>), Str(<<"C", "3">>),
          Str(<<"a", "_">>), Str(<< >>)},
     y : {Absent, Str(<<"B", "2", "_", "N">>)},
     rotation : {Absent, Num(90), Str(<<"A", "1">>)}]

Entry(to, port, dx, x) ==
    [t |-> "dict", to |-> to, port |-> port, dx |-> dx, dy |-> Absent,
     x |-> x, y |-> x, rotation |-> Absent]

\* Entries of the netlists with two placements.
PairEntries ==
    {NotADict,
     Entry(Absent, Absent, Absent, Str(<<"A", "1">>)),
     Entry(Absent, Absent, Absent, Num(7)),
     Entry(Str(<<"B", "2">>), Str(<<"E">>), Str(<<"1", "0">>), Absent),
     Entry(Absent, Str(<<"E">>), Str(<<"a">>), Str(<<"A", "1">>)),
     Entry(Absent, Absent, Str(<<"1", "0">>), Str(<< >>))}

PlacementsChoices ==
    {<<e>> : e \in EntryChoices \cup {NotADict}}
        \cup {<<p[1], p[2]>> : p \in PairEntries \X PairEntries}

\* for instance_name, placement_data in placements.items(): one iteration.
ConvertPlacement ==
    /\ tr.pc = "loop" /\ tr.i <= Len(tr.placements)
    /\ ~entry_raises(tr.placements[tr.i])
    /\ tr' = [tr EXCEPT
                !.placements[tr.i] = convert_entry(tr.placements[tr.i]),
                !.i = tr.i + 1]
    /\ UNCHANGED <<buildVars, sb, gr, gui, cell, grid, pv, app>>

\* An exception that no except clause of the loop catches leaves it.
ConvertPlacementRaises ==
    /\ tr.pc = "loop" /\ tr.i <= Len(tr.placements)
    /\ entry_raises(tr.placements[tr.i])
    /\ tr' = [tr EXCEPT !.pc = "raised"]
    /\ UNCHANGED <<buildVars, sb, gr, gui, cell, grid, pv, app>>

\* The loop is over: return circuit_dict.
ReturnCircuitDict ==
    /\ tr.pc = "loop" /\ tr.i > Len(tr.placements)
    /\ tr' = [tr EXCEPT !.pc = "returned"]
    /\ UNCHANGED <<buildVars, sb, gr, gui, cell, grid, pv, app>>

InitTranslator ==
    /\ instances = << >> /\ placements = << >> /\ component_refs = << >>
    /\ pc = "idle" /\ idx = 1 /\ log = << >> /\ raised = NoError
    /\ sb = NoSBend /\ routes = << >> /\ rt = NoRouting /\ gds = "none"
    /\ gr = NoGrating /\ gui = NoGui
    /\ cell = [pc |-> "idle"] /\ grid = [pc |-> "idle"]
    /\ pv = [pc |-> "idle"] /\ app = [pc |-> "idle"]
    /\ \E ps \in PlacementsChoices :
          tr = [pc |-> "loop", i |-> 1, response |-> ps, placements |-> ps]

NextTranslator ==
    \/ ConvertPlacement
    \/ ConvertPlacementRaises
    \/ ReturnCircuitDict

SpecTranslator == InitTranslator /\ [][NextTranslator]_vars

\* The value of a dx / dy key after the run, for the value v before it.
FloatOrSame(v, w) ==
    IF v.t = "str" /\ w # v THEN w.t = "num" /\ float_ok(v.v) ELSE w = v

\* C25: in the returned dict every entry holding `to` or `port` equals the
\* entry of the response except that a string dx or dy may have become a
\* number: its to, port, x, y and rotation are untouched.  Only an entry
\* with neither key has a string x or y replaced by a pixel integer, and
\* nothing else of it changes.
C25_RelativeEntriesNotGridConverted ==
    tr.pc = "returned" =>
        \A k \in 1..Len(tr.response) :
            LET a == tr.response[k]
                b == tr.placements[k]
            IN  IF a.t # "dict" THEN b = a
                ELSE /\ b.to = a.to /\ b.port = a.port
                     /\ b.rotation = a.rotation
                     /\ IF a.to # Absent \/ a.port # Absent
                        THEN /\ b.x = a.x /\ b.y = a.y
                             /\ FloatOrSame(a.dx, b.dx)
                             /\ FloatOrSame(a.dy, b.dy)
                        ELSE /\ b.dx = a.dx /\ b.dy = a.dy
                             /\ b.x # a.x => a.x.t = "str" /\ b.x.t = "num"
                             /\ b.y # a.y => a.y.t = "str" /\ b.y.t = "num"

\* A returned run with an entry that has `port` but no `to`, a cell
\* reference under x that stayed a string, and a string dx that became a
\* number; and an absolute entry whose x became a pixel.
C25_Witness ==
    /\ tr.pc = "returned"
    /\ \E k \in 1..Len(tr.response) :
          /\ tr.response[k].t = "dict"
          /\ tr.response[k].to = Absent /\ tr.response[k].port # Absent
          /\ tr.placements[k].x = Str(<<"A", "1">>)
          /\ tr.response[k].dx = Str(<<"1", "0">>)
          /\ tr.placements[k].dx = Num(10)

-----------------------------------------------------------------------------
\* The preview resolver, _draw_preview_on_image.  A placement value is
\* Absent, a number, or a string "name,port" as split(',') reads it.

MaxChain == 4
PassBound == 3

Ref(n, port) == [t |-> "ref", name |-> n, port |-> port]

NotPlaced ==
    [placed |-> FALSE, x |-> Absent, y |-> Absent, to |-> Absent,
     port |-> Absent, dx |-> 0, dy |-> 0, rotation |-> 0]

\* x: <number>, y: <number>, rotation: <degrees>
AbsolutePlacement(px, py, rot) ==
    [NotPlaced EXCEPT !.placed = TRUE, !.x = Num(px), !.y = Num(py),
                      !.rotation = rot]

\* x: "ref,port", y: "ref,port": the form the relative pass reads.
XYPlacement(ref, own_port, ddx, ddy, rot) ==
    [NotPlaced EXCEPT !.placed = TRUE, !.x = ref, !.y = ref,
                      !.port = own_port, !.dx = ddx, !.dy = ddy,
                      !.rotation = rot]

\* to: "ref,port", port: <my port>: the form of the prompt and the build.
ToPlacement(ref, own_port, ddx, ddy, rot) ==
    [NotPlaced EXCEPT !.placed = TRUE, !.to = ref, !.port = own_port,
                      !.dx = ddx, !.dy = ddy, !.rotation = rot]

PreviewInstance(component, settings, placement) ==
    [component |-> component, settings |-> settings,
     placement |-> placement]

ChainNames == <<"n1", "n2", "n3", "n4", "n5", "n6", "n7">>

\* Every declaration order of the first n names.
Orderings(n) ==
    {o \in [1..n -> {ChainNames[i] : i \in 1..n}] :
        \A i, j \in 1..n : i # j => o[i] # o[j]}

RelativeChoices ==
    {XYPlacement(Ref("n1", rp), op, a, b, r) :
        rp \in {"o1", "o2", "o9"}, op \in {Absent, Str(<<"o1">>)},
        a \in {0, 30}, b \in {0, -20}, r \in {0, 90}}
    \cup
    {ToPlacement(Ref("n1", rp), op, a, b, r) :
        rp \in {"o1", "o2"}, op \in {Absent, Str(<<"o1">>)},
        a \in {0, 30}, b \in {0}, r \in {0, 90}}

\* An anchor and one instance placed relative to it, in both orders.
PairNetlists ==
    {[names |-> o,
      inst |-> [n \in {"n1", "n2"} |->
                  IF n = "n1" THEN PreviewInstance(ty1, st1, pl1)
                  ELSE PreviewInstance(ty2, << >>, pl2)]] :
        o \in Orderings(2),
        ty1 \in {<<"mzi">>, <<"ring", "_", "resonator">>},
        st1 \in {<< >>, <<Setting("rotation", "90", TRUE, 90)>>},
        pl1 \in {NotPlaced, AbsolutePlacement(100, 200, 0),
                 AbsolutePlacement(100, 200, 180)},
        ty2 \in {<<"mzi">>, <<"ring", "_", "resonator">>},
        pl2 \in RelativeChoices}

\* A chain: n1 is the anchor and every other instance is placed relative
\* to the one before it, declared in any order.
ChainOf(o) ==
    [names |-> o,
     inst |-> [n \in {ChainNames[i] : i \in 1..Len(o)} |->
                 IF n = "n1"
                 THEN PreviewInstance(<<"mzi">>, << >>,
                                      AbsolutePlacement(100, 200, 0))
                 ELSE PreviewInstance(<<"mzi">>, << >>,
                          XYPlacement(
                              Ref(ChainNames[(CHOOSE i \in 2..Len(o) :
                                                ChainNames[i] = n) - 1],
                                  "o2"),
                              Absent, 30, 0, 0))]]

ChainNetlists ==
    {ChainOf(o) : o \in UNION {Orderings(len) : len \in 2..(MaxChain + 1)}}

\* settings.get('rotation', 0)
settings_rotation(settings) ==
    LET given == {i \in 1..Len(settings) : settings[i].key = "rotation"}
    IN  IF given = {} THEN 0
        ELSE settings[CHOOSE i \in given : TRUE].value

\* rot = float(s_rot or p_rot)
rotation_of(instance) ==
    IF settings_rotation(instance.settings) # 0
    THEN settings_rotation(instance.settings)
    ELSE instance.placement.rotation

\* self._get_component_info(c_type, settings)['ports'].get(port, (0, 0))
port_offset(instance, port) ==
    LET ports == component_info(TRUE, instance.component,
                                instance.settings).ports
    IN  IF port \in DOMAIN ports THEN ports[port] ELSE <<0, 0>>

\* The port offset turned by the rotation of its instance (degrees).
rotated_offset_unrotated(off, degrees) == off

rotated_offset(off, degrees) == Rot(degrees \div 90, off)

\* isinstance(raw, (int, float)) for p.get(key, 0)
is_number(v) == v = Absent \/ v.t = "num"

number_of(v) == IF v = Absent THEN 0 ELSE v.v

PreviewStart(netlist) ==
    [pc |-> "preload", names |-> netlist.names, inst |-> netlist.inst,
     rp |-> [n \in {} |-> 0], pass |-> 1, k |-> 1]

\* Pre-load of resolved_positions for all instances.
PreloadInfo ==
    /\ pv.pc = "preload"
    /\ pv' = [pv EXCEPT
                !.pc = "absolutes",
                !.rp = [n \in DOMAIN pv.inst |->
                          [x |-> 0, y |-> 0,
                           rotation |-> rotation_of(pv.inst[n]),
                           resolved |-> FALSE]]]
    /\ UNCHANGED <<buildVars, sb, gr, gui, cell, grid, tr, app>>

\* Pass 1, one instance.
AbsoluteStep ==
    /\ pv.pc = "absolutes" /\ pv.k <= Len(pv.names)
    /\ LET name == pv.names[pv.k]
           p == pv.inst[name].placement
       IN  pv' = [pv EXCEPT
                    !.k = pv.k + 1,
                    !.rp[name] =
                        IF p.placed
                        THEN IF is_number(p.x) /\ is_number(p.y)
                             THEN [@ EXCEPT !.x = number_of(p.x),
                                            !.y = number_of(p.y),
                                            !.resolved = TRUE]
                             ELSE @
                        ELSE [@ EXCEPT !.resolved = TRUE]]
    /\ UNCHANGED <<buildVars, sb, gr, gui, cell, grid, tr, app>>

\* Pass 1 is over.
EndAbsolutes ==
    /\ pv.pc = "absolutes" /\ pv.k > Len(pv.names)
    /\ pv' = [pv EXCEPT !.pc = "relative", !.pass = 1, !.k = 1]
    /\ UNCHANGED <<buildVars, sb, gr, gui, cell, grid, tr, app>>

\* One coordinate of the reference point; coord is 1 for x and 2 for y.
\* waits is TRUE when the code takes "continue".
reference(v, rp, inst, coord) ==
    IF is_number(v) THEN [waits |-> FALSE, at |-> number_of(v)]
    ELSE IF v.t = "ref"
    THEN IF v.name \in DOMAIN rp /\ rp[v.name].resolved
         THEN [waits |-> FALSE,
               at |-> (IF coord = 1 THEN rp[v.name].x ELSE rp[v.name].y)
                      + rotated_offset(port_offset(inst[v.name], v.port),
                                       rp[v.name].rotation)[coord]]
         ELSE [waits |-> TRUE, at |-> 0]
    ELSE [waits |-> FALSE, at |-> 0]

\* Pass 2, one instance of one of the passes.
RelativeStep ==
    /\ pv.pc = "relative" /\ pv.pass <= PassBound /\ pv.k <= Len(pv.names)
    /\ LET name == pv.names[pv.k]
           p == pv.inst[name].placement
           ref_x == reference(p.x, pv.rp, pv.inst, 1)
           ref_y == reference(p.y, pv.rp, pv.inst, 2)
       IN  pv' = [pv EXCEPT
                    !.k = pv.k + 1,
                    !.rp[name] =
                        IF pv.rp[name].resolved \/ ~p.placed THEN @
                        ELSE IF ref_x.waits \/ ref_y.waits THEN @
                        ELSE [@ EXCEPT !.x = ref_x.at + p.dx,
                                       !.y = ref_y.at + p.dy,
                                       !.resolved = TRUE]]
    /\ UNCHANGED <<buildVars, sb, gr, gui, cell, grid, tr, app>>

\* for _ in range(3): the next pass.
NextPass ==
    /\ pv.pc = "relative" /\ pv.pass <= PassBound /\ pv.k > Len(pv.names)
    /\ pv' = [pv EXCEPT !.pass = pv.pass + 1, !.k = 1]
    /\ UNCHANGED <<buildVars, sb, gr, gui, cell, grid, tr, app>>

\* The loop is over: valid_comps are the resolved instances.
EndResolve ==
    /\ pv.pc = "relative" /\ pv.pass > PassBound
    /\ pv' = [pv EXCEPT !.pc = "resolved"]
    /\ UNCHANGED <<buildVars, sb, gr, gui, cell, grid, tr, app>>

InitPreview ==
    /\ instances = << >> /\ placements = << >> /\ component_refs = << >>
    /\ pc = "idle" /\ idx = 1 /\ log = << >> /\ raised = NoError
    /\ sb = NoSBend /\ routes = << >> /\ rt = NoRouting /\ gds = "none"
    /\ gr = NoGrating /\ gui = NoGui
    /\ cell = [pc |-> "idle"] /\ grid = [pc |-> "idle"]
    /\ tr = [pc |-> "idle"] /\ app = [pc |-> "idle"]
    /\ pv \in {PreviewStart(nl) : nl \in PairNetlists \cup ChainNetlists}

NextPreview ==
    \/ PreloadInfo
    \/ AbsoluteStep
    \/ EndAbsolutes
    \/ RelativeStep
    \/ NextPass
    \/ EndResolve

SpecPreview == InitPreview /\ [][NextPreview]_vars

\* The instances the relative pass places by a reference: x and y hold
\* the same "name,port".
ByReference(n) ==
    /\ pv.inst[n].placement.placed
    /\ pv.inst[n].placement.x.t = "ref"
    /\ pv.inst[n].placement.y = pv.inst[n].placement.x

\* C26: when the resolver has finished, an instance placed by a reference
\* and resolved stands at the referenced instance's position plus the
\* referenced port's offset turned by the referenced instance's rotation,
\* plus (dx, dy); nothing of the instance itself (its port offsets, its
\* `port` key, its rotation) enters.
C26_RelativePositionFromReferenceOnly ==
    pv.pc = "resolved" =>
        \A n \in DOMAIN pv.inst :
            (ByReference(n) /\ pv.rp[n].resolved) =>
                LET p == pv.inst[n].placement
                    r == p.x.name
                    off == Rot(pv.rp[r].rotation \div 90,
                               port_offset(pv.inst[r], p.x.port))
                IN  /\ pv.rp[n].x = pv.rp[r].x + off[1] + p.dx
                    /\ pv.rp[n].y = pv.rp[r].y + off[2] + p.dy

\* A resolved relative instance with a `port` key and a rotation of its
\* own, placed against a rotated instance's port with a non-zero offset.
C26_Witness ==
    /\ pv.pc = "resolved"
    /\ \E n \in DOMAIN pv.inst :
          /\ ByReference(n) /\ pv.rp[n].resolved
          /\ pv.inst[n].placement.port # Absent
          /\ pv.rp[n].rotation = 90
          /\ pv.rp[pv.inst[n].placement.x.name].rotation = 90
          /\ port_offset(pv.inst[pv.inst[n].placement.x.name],
                         pv.inst[n].placement.x.port) # <<0, 0>>
          /\ pv.inst[n].placement.dx # 0

\* The chain of references of n ends at a resolved anchor.
RECURSIVE ChainEndsResolved(_, _)
ChainEndsResolved(n, fuel) ==
    IF ~ByReference(n) THEN pv.rp[n].resolved
    ELSE IF fuel = 0 THEN FALSE
    ELSE pv.inst[n].placement.x.name \in DOMAIN pv.inst
         /\ ChainEndsResolved(pv.inst[n].placement.x.name, fuel - 1)

\* C27: when the passes are over, every instance placed by a reference
\* whose chain of references ends at a resolved instance is resolved, for
\* every depth of the chain and every declaration order.
C27_EveryChainResolved ==
    pv.pc = "resolved" =>
        \A n \in DOMAIN pv.inst :
            (ByReference(n) /\ ChainEndsResolved(n, Len(pv.names))) =>
                pv.rp[n].resolved

\* C28: the absolute pass leaves unresolved every placement that declares
\* no numeric x and y; an instance placed with `to: instance,port` is not
\* marked resolved by it.
C28_AbsolutePassSkipsToForm ==
    (pv.pc = "relative" /\ pv.pass = 1 /\ pv.k = 1) =>
        \A n \in DOMAIN pv.inst :
            pv.inst[n].placement.to # Absent => ~pv.rp[n].resolved

-----------------------------------------------------------------------------
\* gui_app: the main window, the analysis threads and the callbacks they
\* queue on the main loop with root.after(0, ...).

MaxAnalyses == 3

Files == {"f1", "f2"}

\* The content of the YAML text box.
EmptyText == [kind |-> "empty", of |-> 0]
YamlText(id) == [kind |-> "yaml", of |-> id]
ErrorText(id) == [kind |-> "error", of |-> id]

\* self.select_button.config(state=...) of upload_action.
select_state_after_start_kept(state) == state

select_state_after_start(state) == "disabled"

\* The analyses that have been started and not yet delivered.
Running == DOMAIN app.threads

\* upload_action with a file chosen in the dialog (a dialog the user
\* dismisses changes nothing).  Tk does not invoke the command of a
\* disabled button.
UploadAction ==
    /\ app.pc = "app" /\ app.select_button = "normal"
    /\ app.started < MaxAnalyses
    /\ \E file_path \in Files, overlay_ok \in BOOLEAN :
          IF ~overlay_ok
          THEN app' = [app EXCEPT !.current_file = file_path,
                                  !.status = "Error creating grid overlay"]
          ELSE app' = [app EXCEPT
                         !.current_file = file_path,
                         !.status = "Analyzing Image...",
                         !.select_button =
                             select_state_after_start(app.select_button),
                         !.started = app.started + 1,
                         !.threads = (app.started + 1 :> "load")
                                         @@ app.threads]
    /\ UNCHANGED <<buildVars, sb, gr, gui, cell, grid, tr, pv>>

\* _analyze_image_thread: cv2.imread, then send_to_vision_model, then
\* parse_ai_response and yaml.dump.
ThreadAdvance(t) ==
    /\ app.pc = "app" /\ t \in Running
    /\ app.threads[t] \in {"load", "vision"}
    /\ app' = [app EXCEPT
                 !.threads[t] = IF app.threads[t] = "load" THEN "vision"
                                ELSE "parse"]
    /\ UNCHANGED <<buildVars, sb, gr, gui, cell, grid, tr, pv>>

\* _analyze_image_thread, except Exception: the error is queued for the
\* main thread and the thread ends.
ThreadRaises(t) ==
    /\ app.pc = "app" /\ t \in Running
    /\ app' = [app EXCEPT
                 !.threads = [u \in Running \ {t} |-> app.threads[u]],
                 !.after_queue = Append(app.after_queue, ErrorText(t))]
    /\ UNCHANGED <<buildVars, sb, gr, gui, cell, grid, tr, pv>>

\* _analyze_image_thread: the YAML is queued for the main thread.
ThreadPosts(t) ==
    /\ app.pc = "app" /\ t \in Running /\ app.threads[t] = "parse"
    /\ app' = [app EXCEPT
                 !.threads = [u \in Running \ {t} |-> app.threads[u]],
                 !.after_queue = Append(app.after_queue, YamlText(t))]
    /\ UNCHANGED <<buildVars, sb, gr, gui, cell, grid, tr, pv>>

\* _update_yaml_text, run by the main loop for the oldest queued callback.
UpdateYamlText ==
    /\ app.pc = "app" /\ app.after_queue # << >>
    /\ app' = [app EXCEPT
                 !.after_queue = Tail(app.after_queue),
                 !.select_button = "normal",
                 !.status = IF Head(app.after_queue).kind = "error"
                            THEN "Error" ELSE "Analysis complete",
                 !.yaml_text = Head(app.after_queue)]
    /\ UNCHANGED <<buildVars, sb, gr, gui, cell, grid, tr, pv>>

\* cancel_action
CancelAction ==
    /\ app.pc = "app"
    /\ app' = [app EXCEPT !.yaml_text = EmptyText, !.status = "Ready",
                          !.current_file = "None"]
    /\ UNCHANGED <<buildVars, sb, gr, gui, cell, grid, tr, pv>>

\* submit_action
SubmitAction ==
    /\ app.pc = "app"
    /\ app' = [app EXCEPT !.status = "Success: YAML saved"]
    /\ UNCHANGED <<buildVars, sb, gr, gui, cell, grid, tr, pv>>

InitApp ==
    /\ instances = << >> /\ placements = << >> /\ component_refs = << >>
    /\ pc = "idle" /\ idx = 1 /\ log = << >> /\ raised = NoError
    /\ sb = NoSBend /\ routes = << >> /\ rt = NoRouting /\ gds = "none"
    /\ gr = NoGrating /\ gui = NoGui
    /\ cell = [pc |-> "idle"] /\ grid = [pc |-> "idle"]
    /\ tr = [pc |-> "idle"] /\ pv = [pc |-> "idle"]
    /\ app = [pc |-> "app", select_button |-> "normal",
              yaml_text |-> EmptyText, status |-> "Ready",
              current_file |-> "None", started |-> 0,
              threads |-> [t \in {} |-> "load"], after_queue |-> << >>]

ThreadStep == \E t \in 1..MaxAnalyses :
                 ThreadAdvance(t) \/ ThreadRaises(t) \/ ThreadPosts(t)

NextApp ==
    \/ UploadAction
    \/ \E t \in 1..MaxAnalyses : ThreadAdvance(t)
    \/ \E t \in 1..MaxAnalyses : ThreadRaises(t)
    \/ \E t \in 1..MaxAnalyses : ThreadPosts(t)
    \/ UpdateYamlText
    \/ CancelAction
    \/ SubmitAction

SpecApp == InitApp /\ [][NextApp]_vars

\* A started thread is scheduled until it has queued its callback, and
\* the main loop runs every queued callback.
SpecAppFair ==
    /\ InitApp /\ [][NextApp]_vars
    /\ WF_vars(ThreadStep)
    /\ WF_vars(UpdateYamlText)

\* An analysis is in flight: its thread runs or its callback is queued.
InFlight == app.pc = "app" /\ (Running # {} \/ app.after_queue # << >>)

ButtonTracksAnalysis ==
    app.pc = "app" =>
        /\ app.select_button = "disabled" <=> InFlight
        /\ Cardinality(Running) + Len(app.after_queue) <= 1

\* C29: the Select Image button is disabled exactly while an analysis is
\* in flight (from before the thread starts until its result or error is
\* delivered to _update_yaml_text), at most one analysis is in flight at
\* any time, and every analysis in flight leads to the button being
\* enabled again.
C29_ButtonDisabledWhileInFlight ==
    /\ []ButtonTracksAnalysis
    /\ InFlight ~> (app.pc = "app" /\ app.select_button = "normal")

\* A second analysis whose thread raised has been delivered: the button
\* is enabled again.
C29_Witness ==
    /\ app.pc = "app" /\ app.started = 2
    /\ app.yaml_text = ErrorText(2)
    /\ app.select_button = "normal"

\* C30: while the box is cleared (Cancel / Clear has reset the file, the
\* text and the status, and no image has been selected since), the
\* delivery of a queued result or error changes neither the text box nor
\* the status.
C30_DeliveryAfterCancelIgnored ==
    [][(/\ app.pc = "app"
        /\ app.current_file = "None"
        /\ app.yaml_text = EmptyText
        /\ app.status = "Ready"
        /\ Len(app'.after_queue) < Len(app.after_queue))
       => (app'.yaml_text = EmptyText /\ app'.status = "Ready")]_vars


=============================================================================
